---- MODULE Spec2Model ----
(***************************************************************************)
(* A model of the ray-scene shading engine of interactive_wasm_raytracer:  *)
(* the primitives' intersection routines, the scene's closest-hit query,   *)
(* the camera's ray generation, the pixel loop, the two integrators and    *)
(* the ray-path recorder.                                                  *)
(*                                                                         *)
(* f32 values are modelled as fixed-point numbers: the integer n stands    *)
(* for n / Scale.  Every product, quotient and square root is rounded once *)
(* (towards minus infinity), as an f32 operation is rounded once.  A Vec3  *)
(* is a triple of such numbers.                                            *)
(***************************************************************************)
EXTENDS Integers, Sequences, FiniteSets, TLC

\* ------------------------------------------------------------------------
\* Fixed-point scalars (f32)
\* ------------------------------------------------------------------------

\* Number of fixed-point units in 1.0: the resolution 1e-6 is the threshold
\* below which the primitives treat a direction component as zero.
Scale == 1000000

\* n thousandths: F(500) is 0.5.
F(n) == n * (Scale \div 1000)

\* The self-intersection epsilon 0.001 of every closest-hit query.
Eps == F(1)

\* f32::INFINITY as the upper end of a query window, in units of 1.0: no hit
\* of the modelled scenes lies beyond it.
FarUnits == 20

FarT == FarUnits * Scale

\* The magnitude a quotient saturates at (far beyond FarT).
Huge == 2000 * Scale

Abs(x) == IF x < 0 THEN -x ELSE x

Max(x, y) == IF x > y THEN x ELSE y

Min(x, y) == IF x < y THEN x ELSE y

\* a * b on f32: floor(a * b / Scale), computed on the halves of a and b so
\* that no intermediate value leaves the 32-bit integers.
FMul(a, b) ==
    (a \div 1000) * (b \div 1000)
    + ((a \div 1000) * (b % 1000) + (a % 1000) * (b \div 1000)
       + ((a % 1000) * (b % 1000)) \div 1000) \div 1000

\* Long division: `digits` more decimal digits of r / b appended to q.
RECURSIVE LongDiv(_, _, _, _)
LongDiv(q, r, b, digits) ==
    IF digits = 0 THEN q
    ELSE LongDiv(q * 10 + (r * 10) \div b, (r * 10) % b, b, digits - 1)

\* a / b for b > 0, saturating.
FDivPos(a, b) ==
    IF a \div b >= 2000 THEN Huge
    ELSE IF a \div b < -2000 THEN -Huge
    ELSE LongDiv(a \div b, a % b, b, 6)

\* a / b on f32 (b # 0): floor(a * Scale / b).
FDiv(a, b) == FDivPos(IF b < 0 THEN -a ELSE a, Abs(b))

\* square is FMul(r, r): whether r * r <= x * Scale, the digits FMul drops
\* taken from the halves of r.
SquareAtMost(r, square, x) ==
    \/ square < x
    \/ /\ square = x
       /\ (((2 * (r \div 1000) * (r % 1000)) % 1000) * 1000
           + (r % 1000) * (r % 1000)) % Scale = 0

RECURSIVE SqrtIter(_, _, _)
SqrtIter(x, lo, hi) ==
    IF lo >= hi THEN lo
    ELSE IF SquareAtMost((lo + hi + 1) \div 2,
                         FMul((lo + hi + 1) \div 2, (lo + hi + 1) \div 2), x)
    THEN SqrtIter(x, (lo + hi + 1) \div 2, hi)
    ELSE SqrtIter(x, lo, (lo + hi + 1) \div 2 - 1)

\* x.sqrt() on f32 (x >= 0): floor(sqrt(x * Scale)).
FSqrt(x) == SqrtIter(x, 0, 44 * Scale)

\* ------------------------------------------------------------------------
\* Vec3
\* ------------------------------------------------------------------------

ZERO == <<0, 0, 0>>

ONE == <<Scale, Scale, Scale>>

VAdd(a, b) == <<a[1] + b[1], a[2] + b[2], a[3] + b[3]>>

VSub(a, b) == <<a[1] - b[1], a[2] - b[2], a[3] - b[3]>>

VNeg(a) == <<-a[1], -a[2], -a[3]>>

\* v * k, k a scalar.
VScale(v, k) == [i \in 1..3 |-> FMul(v[i], k)]

\* v / k, k a scalar.
VDiv(v, k) == [i \in 1..3 |-> FDiv(v[i], k)]

\* Component-wise product (Vec3 * Vec3).
VMul(a, b) == [i \in 1..3 |-> FMul(a[i], b[i])]

Sum3(v) == v[1] + v[2] + v[3]

Dot(a, b) == Sum3(VMul(a, b))

LengthSquared(a) == Dot(a, a)

Length(a) == FSqrt(LengthSquared(a))

Normalize(a) == VDiv(a, Length(a))

\* The vector with the opposite of `sign` on axis i.
AxisVec_inward(i, sign) == [k \in 1..3 |-> IF k = i THEN -sign * Scale ELSE 0]

\* The vector with `sign` on axis i and 0 elsewhere.
AxisVec(i, sign) == [k \in 1..3 |-> IF k = i THEN sign * Scale ELSE 0]

\* ------------------------------------------------------------------------
\* Ray
\* ------------------------------------------------------------------------

Ray(origin, direction) == [origin |-> origin, direction |-> direction]

\* Ray::at(t) = origin + t * direction.
RayAt(ray, t) == VAdd(ray.origin, VScale(ray.direction, t))

\* ------------------------------------------------------------------------
\* Materials and hit records
\* ------------------------------------------------------------------------

MaterialType == {"Lambertian", "Metal", "Dielectric"}

Material(color, specular, shininess, reflectivity, roughness, ior, mat_type) ==
    [color |-> color, specular |-> specular, shininess |-> shininess,
     reflectivity |-> reflectivity, roughness |-> roughness, ior |-> ior,
     mat_type |-> mat_type]

\* Material::default().
DefaultMaterial == Material(ONE, F(500), 32, 0, 0, F(1500), "Lambertian")

\* Option<HitRecord>: None.
None ==
    [hit |-> FALSE, t |-> 0, point |-> ZERO, normal |-> ZERO,
     material |-> DefaultMaterial]

\* Option<HitRecord>: Some(HitRecord { t, point, normal, material }).
Some(t, point, normal, material) ==
    [hit |-> TRUE, t |-> t, point |-> point, normal |-> normal,
     material |-> material]

\* ------------------------------------------------------------------------
\* Primitives.  An intersect routine is written as a chain of definitions,
\* each taking the values computed so far as parameters, the last step
\* first.
\* ------------------------------------------------------------------------

Sphere(center, radius, material) ==
    [center |-> center, radius |-> radius, material |-> material]

Plane(point, normal, material) ==
    [point |-> point, normal |-> normal, material |-> material]

Cube(min, max, material) ==
    [min |-> min, max |-> max, material |-> material]

\* The record of the hit with the normal left undivided.
Sphere_record_unscaled(self, t, point) ==
    Some(t, point, VSub(point, self.center), self.material)

\* Sphere::intersect: the record of the hit at `point`, root `t`.
Sphere_record(self, t, point) ==
    Some(t, point, VDiv(VSub(point, self.center), self.radius), self.material)

\* The choice between the roots with the larger root accepted without the
\* window test.
Sphere_root_unchecked(self, ray, t_min, t_max, root1, root2) ==
    IF root1 < t_min \/ t_max < root1
    THEN Sphere_record(self, root2, RayAt(ray, root2))
    ELSE Sphere_record(self, root1, RayAt(ray, root1))

\* Sphere::intersect: the nearest root that lies in the window.
Sphere_root(self, ray, t_min, t_max, root1, root2) ==
    IF root1 < t_min \/ t_max < root1
    THEN IF root2 < t_min \/ t_max < root2
         THEN None
         ELSE Sphere_record(self, root2, RayAt(ray, root2))
    ELSE Sphere_record(self, root1, RayAt(ray, root1))

\* Sphere::intersect from a, half_b and c on.
Sphere_solve(self, ray, t_min, t_max, a, half_b, c) ==
    LET discriminant == FMul(half_b, half_b) - FMul(a, c)
        sqrtd == FSqrt(discriminant)
    IN  IF discriminant < 0 THEN None
        ELSE Sphere_root(self, ray, t_min, t_max,
                         FDiv(-half_b - sqrtd, a), FDiv(-half_b + sqrtd, a))

\* Sphere::intersect.
Sphere_intersect(self, ray, t_min, t_max) ==
    LET oc == VSub(ray.origin, self.center)
        a == LengthSquared(ray.direction)
        half_b == Dot(oc, ray.direction)
        c == LengthSquared(oc) - FMul(self.radius, self.radius)
    IN  Sphere_solve(self, ray, t_min, t_max, a, half_b, c)

\* Plane::intersect.  |denom| > 1e-6 is denom # 0 at this resolution.
Plane_intersect(self, ray, t_min, t_max) ==
    LET denom == Dot(self.normal, ray.direction)
        t == FDiv(Dot(VSub(self.point, ray.origin), self.normal), denom)
    IN  IF Abs(denom) > 0 /\ t >= t_min /\ t <= t_max
        THEN Some(t, RayAt(ray, t), self.normal, self.material)
        ELSE None

\* Cube::intersect: the slab loop from axis i on, then the record.
RECURSIVE CubeAxis(_, _, _, _, _, _)

\* The else-arm of the loop body on axis i, from t1 and t2 on.
CubeSlab(self, ray, i, t_near, t_far, normal, t1, t2) ==
    LET t_min_i == IF t1 > t2 THEN t2 ELSE t1
        t_max_i == IF t1 > t2 THEN t1 ELSE t2
        sign == IF t1 > t2 THEN 1 ELSE -1
        near == IF t_min_i > t_near THEN t_min_i ELSE t_near
        far == IF t_max_i < t_far THEN t_max_i ELSE t_far
    IN  IF near > far THEN None
        ELSE CubeAxis(self, ray, i + 1, near, far,
                      IF t_min_i > t_near THEN AxisVec(i, sign) ELSE normal)

CubeAxis(self, ray, i, t_near, t_far, normal) ==
    IF i > 3
    THEN Some(t_near, RayAt(ray, t_near), normal, self.material)
    ELSE IF Abs(ray.direction[i]) < 1
    THEN IF ray.origin[i] < self.min[i] \/ ray.origin[i] > self.max[i]
         THEN None
         ELSE CubeAxis(self, ray, i + 1, t_near, t_far, normal)
    ELSE CubeSlab(self, ray, i, t_near, t_far, normal,
                  FDiv(self.min[i] - ray.origin[i], ray.direction[i]),
                  FDiv(self.max[i] - ray.origin[i], ray.direction[i]))

\* Cube::intersect.
Cube_intersect(self, ray, t_min, t_max) ==
    CubeAxis(self, ray, 1, t_min, t_max, ZERO)

\* ------------------------------------------------------------------------
\* Scene
\* ------------------------------------------------------------------------

Scene(spheres, cubes, planes, lights) ==
    [spheres |-> spheres, cubes |-> cubes, planes |-> planes, lights |-> lights]

\* The dispatch of Intersectable::intersect on the primitive's kind.
Intersect(kind, prim, ray, t_min, t_max) ==
    CASE kind = "sphere" -> Sphere_intersect(prim, ray, t_min, t_max)
      [] kind = "cube" -> Cube_intersect(prim, ray, t_min, t_max)
      [] kind = "plane" -> Plane_intersect(prim, ray, t_min, t_max)

\* The three loops of Scene::intersect, in order.
LoopKind(loop) == <<"sphere", "cube", "plane">>[loop]

LoopOver(self, loop) == <<self.spheres, self.cubes, self.planes>>[loop]

\* The body of a loop with closest_t left as it was.
Accept_no_narrowing(acc, hit) ==
    IF hit.hit THEN [closest_hit |-> hit, closest_t |-> acc.closest_t] ELSE acc

\* The body of a loop with closest_t set just below the accepted hit.
Accept_strict(acc, hit) ==
    IF hit.hit THEN [closest_hit |-> hit, closest_t |-> hit.t - 1] ELSE acc

\* The body of a loop of Scene::intersect: acc holds closest_hit and
\* closest_t, hit is what the primitive's intersect returned.
Accept(acc, hit) ==
    IF hit.hit THEN [closest_hit |-> hit, closest_t |-> hit.t] ELSE acc

\* The loops of Scene::intersect from element i of loop `loop` on.
RECURSIVE Scan(_, _, _, _, _, _)
Scan(self, loop, i, ray, t_min, acc) ==
    IF loop > 3 THEN acc.closest_hit
    ELSE IF i > Len(LoopOver(self, loop))
    THEN Scan(self, loop + 1, 1, ray, t_min, acc)
    ELSE Scan(self, loop, i + 1, ray, t_min,
              Accept(acc, Intersect(LoopKind(loop), LoopOver(self, loop)[i],
                                    ray, t_min, acc.closest_t)))

\* Scene::intersect: spheres, then cubes, then planes.
Scene_intersect(self, ray, t_min, t_max) ==
    Scan(self, 1, 1, ray, t_min, [closest_hit |-> None, closest_t |-> t_max])

\* ------------------------------------------------------------------------
\* The materials of Scene::default()
\* ------------------------------------------------------------------------

\* The shininess exponents are whole numbers and kept as such.
FloorMaterial ==
    Material(<<F(500), F(500), F(500)>>, 0, 0, 0, F(1000), F(1500), "Lambertian")

RedLambertian ==
    Material(<<F(800), F(100), F(100)>>, F(500), 32, 0, F(100), F(1500), "Lambertian")

GrayMetal ==
    Material(<<F(600), F(600), F(600)>>, F(700), 64, F(800), F(100), F(1500), "Metal")

Glass ==
    Material(<<F(1000), F(1000), F(1000)>>, F(1000), 100, F(100), 0, F(1520), "Dielectric")

BlueMetal ==
    Material(<<F(100), F(100), F(800)>>, F(500), 32, F(400), F(400), F(1500), "Metal")

\* ------------------------------------------------------------------------
\* Closest-hit queries: the inputs
\* ------------------------------------------------------------------------

\* Longest list of spheres, of cubes and of planes in a queried scene.
MaxSpheres == 2

MaxCubes == 1

MaxPlanes == 1

NoRepeat(l) == \A j, k \in 1..Len(l) : j # k => l[j] # l[k]

\* All the sequences of at most n distinct elements of S.
RECURSIVE Lists(_, _)
Lists(S, n) ==
    IF n = 0 THEN {<<>>}
    ELSE LET shorter == Lists(S, n - 1)
         IN  shorter \cup
             {l \in {Append(m, x) : m \in shorter, x \in S} : NoRepeat(l)}

\* A unit sphere at the origin and a sphere of radius 2 whose front touches
\* it at z = 1.
QSpheres ==
    {Sphere(ZERO, Scale, RedLambertian),
     Sphere(<<0, 0, -Scale>>, 2 * Scale, GrayMetal)}

\* The box [-1,-1,-1]..[1,1,1].
QCubes ==
    {Cube(<<-Scale, -Scale, -Scale>>, <<Scale, Scale, Scale>>, BlueMetal)}

\* The plane z = 1 facing the viewer and the floor y = -1.
QPlanes ==
    {Plane(<<0, 0, Scale>>, <<0, 0, Scale>>, FloorMaterial),
     Plane(<<0, -Scale, 0>>, <<0, Scale, 0>>, DefaultMaterial)}

QScenes ==
    {Scene(s, c, p, <<>>) : s \in Lists(QSpheres, MaxSpheres),
                            c \in Lists(QCubes, MaxCubes),
                            p \in Lists(QPlanes, MaxPlanes)}

QOrigins ==
    {<<0, 0, F(5000)>>, ZERO, <<0, F(5000), 0>>, <<F(500), 0, F(5000)>>,
     <<-F(5000), 0, 0>>}

QDirections ==
    {<<0, 0, -Scale>>, <<0, -Scale, 0>>, <<0, 0, -2 * Scale>>,
     <<0, F(600), -F(800)>>, <<Scale, 0, 0>>}

QRays == {Ray(o, d) : o \in QOrigins, d \in QDirections}

\* The windows [t_min, t_max] of the queries, t_min <= t_max.
QWindows == {<<Eps, FarT>>, <<Eps, F(4500)>>, <<F(4500), FarT>>}

\* ------------------------------------------------------------------------
\* Reflection, refraction, reflectance, random vectors
\* ------------------------------------------------------------------------

\* Vec3::reflect: v - 2 (v . n) n.
Reflect(v, n) == VSub(v, VScale(n, 2 * Dot(v, n)))

\* math::refract from r_out_perp on.
refract_from(n, r_out_perp) ==
    VAdd(r_out_perp,
         VScale(n, -FSqrt(Abs(Scale - LengthSquared(r_out_perp)))))

\* math::refract(uv, n, etai_over_etat): Snell's law in vector form.
refract(uv, n, etai_over_etat) ==
    refract_from(n, VScale(VAdd(uv, VScale(n, Min(Dot(VNeg(uv), n), Scale))),
                           etai_over_etat))

Square(x) == FMul(x, x)

\* x to the power 5.
Pow5(x) == FMul(Square(Square(x)), x)

\* math::reflectance(cosine, ref_idx): Schlick's approximation.
reflectance(cosine, ref_idx) ==
    LET r0 == Square(FDiv(Scale - ref_idx, Scale + ref_idx))
    IN  r0 + FMul(Scale - r0, Pow5(Scale - cosine))

\* An f32 in [0, 1) drawn by rand::thread_rng().gen() is a multiple of
\* 2^-24; such values, and their sums with small whole numbers, are held
\* exactly as a count of 2^-24 steps.
F32Unit == 16777216

\* The f32 spacing at n: the smallest power of two whose 24-bit multiples
\* reach n.
RECURSIVE Ulp(_, _)
Ulp(n, unit) == IF n < F32Unit * unit THEN unit ELSE Ulp(n, unit * 2)

\* n rounded to an f32: to the nearest multiple of the spacing, ties to even.
RoundF32(n) ==
    LET unit == Ulp(n, 1)
        q == n \div unit
        r == n % unit
    IN  IF 2 * r > unit \/ (2 * r = unit /\ q % 2 = 1)
        THEN (q + 1) * unit
        ELSE q * unit

\* A count of 2^-24 steps as a fixed-point number.
ToScale(n) == LongDiv(n \div F32Unit, n % F32Unit, F32Unit, 6)

\* One draw of each kind, of which a step uses the one it asks for: the f32
\* as drawn (bits), as a fixed-point number (f), and the unit vector (v) of
\* math::random_unit_vector().  The f32 values drawn are 0, 0.5 and the
\* largest f32 below 1.
RandomDraw(bits, v) == [bits |-> bits, f |-> ToScale(bits), v |-> v]

Draws ==
    {RandomDraw(0, <<F(800), F(600), 0>>),
     RandomDraw(F32Unit \div 2, <<0, F(600), F(800)>>),
     RandomDraw(F32Unit - 1, <<-F(600), 0, F(800)>>)}

\* ------------------------------------------------------------------------
\* Camera
\* ------------------------------------------------------------------------

\* Transform: the rotation is kept as the basis it rotates the axes to.
Transform(position, right, up, back) ==
    [position |-> position,
     rotation |-> [right |-> right, up |-> up, back |-> back],
     scale |-> ONE]

\* Transform::forward, right, up.
Forward(transform) == VNeg(transform.rotation.back)

Right(transform) == transform.rotation.right

Up(transform) == transform.rotation.up

Cross(a, b) ==
    <<FMul(a[2], b[3]) - FMul(a[3], b[2]),
      FMul(a[3], b[1]) - FMul(a[1], b[3]),
      FMul(a[1], b[2]) - FMul(a[2], b[1])>>

\* Camera::look_at from forward on.
look_at_from(position, forward) ==
    LET right == Normalize(Cross(forward, <<0, Scale, 0>>))
        up == Normalize(Cross(right, forward))
    IN  Transform(position, right, up, VNeg(forward))

\* Camera::look_at(target), as the transform it leaves.
look_at(position, target) ==
    look_at_from(position, Normalize(VSub(target, position)))

\* Camera::new(position, target, fov, aspect_ratio); fov in degrees.
Camera(position, target, fov, aspect_ratio) ==
    [transform |-> look_at(position, target), fov |-> fov,
     aspect_ratio |-> aspect_ratio]

\* (fov.to_radians() / 2.0).tan() for the fields of view used here.
TanHalf(fov) ==
    CASE fov = 45 -> 414214
      [] fov = 60 -> 577350
      [] fov = 90 -> Scale

\* Camera::get_ray from horizontal and vertical on.
get_ray_viewport(self, horizontal, vertical, u, v) ==
    LET position == self.transform.position
        lower_left_corner ==
            VAdd(VSub(VSub(position, VDiv(horizontal, 2 * Scale)),
                      VDiv(vertical, 2 * Scale)),
                 Forward(self.transform))
        direction ==
            VSub(VAdd(VAdd(lower_left_corner, VScale(horizontal, u)),
                      VScale(vertical, v)),
                 position)
    IN  Ray(position, direction)

\* Camera::get_ray(u, v); viewport_height is 2 h, viewport_width is
\* aspect_ratio * viewport_height.
get_ray(self, u, v) ==
    get_ray_viewport(self,
                     VScale(Right(self.transform),
                            FMul(self.aspect_ratio, 2 * TanHalf(self.fov))),
                     VScale(Up(self.transform), 2 * TanHalf(self.fov)),
                     u, v)

\* ------------------------------------------------------------------------
\* Lights and shading terms
\* ------------------------------------------------------------------------

Light(light_type, position, direction, color, intensity) ==
    [light_type |-> light_type, position |-> position, direction |-> direction,
     color |-> color, intensity |-> intensity]

\* x.powf(n) for a whole exponent n >= 0.
RECURSIVE PowF(_, _)
PowF(x, n) ==
    IF n = 0 THEN Scale
    ELSE IF n % 2 = 0 THEN Square(PowF(x, n \div 2))
    ELSE FMul(x, PowF(x, n - 1))

\* The direction towards a light from a point and the distance within which
\* an occluder counts.
LightDir(light, point) ==
    IF light.light_type = "Directional"
    THEN VNeg(Normalize(light.direction))
    ELSE Normalize(VSub(light.position, point))

LightDistance(light, point) ==
    IF light.light_type = "Directional"
    THEN FarT
    ELSE Length(VSub(light.position, point))

\* A shadow test that looks past the light.
Unoccluded_unbounded(scene, hit, light, light_dir) ==
    ~Scene_intersect(scene, Ray(hit.point, light_dir), Eps, FarT).hit

\* The shadow test of both integrators: nothing between the hit point and
\* the light.
Unoccluded(scene, hit, light, light_dir) ==
    ~Scene_intersect(scene, Ray(hit.point, light_dir), Eps,
                     LightDistance(light, hit.point)).hit

\* trace_ray: the diffuse and specular terms an unoccluded light adds.
Whitted_terms(ray, hit, light, light_dir) ==
    LET view_dir == VNeg(ray.direction)
        diff == Max(Dot(hit.normal, light_dir), 0)
        diffuse ==
            VScale(VScale(VMul(hit.material.color, light.color), diff),
                   light.intensity)
        reflect_dir == Reflect(VNeg(light_dir), hit.normal)
        spec == PowF(Max(Dot(view_dir, reflect_dir), 0), hit.material.shininess)
        specular ==
            VScale(VScale(VScale(light.color, hit.material.specular), spec),
                   light.intensity)
    IN  VAdd(diffuse, specular)

\* trace_pathtrace: the direct term an unoccluded light adds at a
\* non-specular hit.
Pathtrace_terms(ray, hit, light, light_dir) ==
    IF hit.material.mat_type = "Lambertian"
    THEN LET cos_theta == Max(Dot(hit.normal, light_dir), 0)
         IN  VScale(VScale(VMul(hit.material.color, light.color),
                           light.intensity), cos_theta)
    ELSE IF hit.material.mat_type = "Metal"
    THEN LET view_dir == VNeg(Normalize(ray.direction))
             halfway == Normalize(VAdd(light_dir, view_dir))
             exponent == FDiv(2 * Scale, Max(hit.material.roughness, F(10)))
             spec == PowF(Max(Dot(hit.normal, halfway), 0), exponent \div Scale)
         IN  VScale(VScale(VMul(light.color, hit.material.color),
                           light.intensity), spec)
    ELSE ZERO

\* What one light adds, from light_dir on.
Light_term(whitted, ray, scene, hit, light, light_dir) ==
    IF Unoccluded(scene, hit, light, light_dir)
    THEN IF whitted THEN Whitted_terms(ray, hit, light, light_dir)
                    ELSE Pathtrace_terms(ray, hit, light, light_dir)
    ELSE ZERO

\* The sum of one integrator's light terms over scene.lights, from light i on.
RECURSIVE SumLights(_, _, _, _, _)
SumLights(whitted, ray, scene, hit, i) ==
    IF i > Len(scene.lights) THEN ZERO
    ELSE VAdd(Light_term(whitted, ray, scene, hit, scene.lights[i],
                         LightDir(scene.lights[i], hit.point)),
              SumLights(whitted, ray, scene, hit, i + 1))

\* The gradient turned upside down.
Sky_inverted(ray) ==
    LET t == FMul(F(500), Scale - Normalize(ray.direction)[2])
    IN  VAdd(VScale(ONE, Scale - t), VScale(<<F(500), F(700), F(1000)>>, t))

\* The background colour (sky gradient) of both integrators.
Sky(ray) ==
    LET t == FMul(F(500), Normalize(ray.direction)[2] + Scale)
    IN  VAdd(VScale(ONE, Scale - t), VScale(<<F(500), F(700), F(1000)>>, t))

\* ------------------------------------------------------------------------
\* Raytracer: the dielectric decision and the path recorder
\* ------------------------------------------------------------------------

RenderMode == {"Raytracing", "Pathtracing"}

RaySegmentType == {"Primary", "Reflection", "Refraction", "Diffuse"}

RayPath(points, segment_types, hit) ==
    [points |-> points, segment_types |-> segment_types, hit |-> hit]

Raytracer(width, height, max_bounces, samples_per_pixel, mode) ==
    [width |-> width, height |-> height, max_bounces |-> max_bounces,
     samples_per_pixel |-> samples_per_pixel, mode |-> mode]

\* The dielectric arm, as each of the four copies in raytracer.rs computes
\* it: the facing normal, the refraction ratio and the reflect-or-refract
\* choice; random_value is the f32 drawn at the hit.

\* From the choice on: the direction of the outgoing ray.
Dielectric_choice(unit_direction, normal, refraction_ratio, reflects) ==
    [reflects |-> reflects,
     direction |-> IF reflects
                   THEN Reflect(unit_direction, normal)
                   ELSE refract(unit_direction, normal, refraction_ratio)]

\* From the facing normal and the refraction ratio on.
Dielectric_facing(unit_direction, normal, refraction_ratio, random_value) ==
    LET cos_theta == Min(Dot(VNeg(unit_direction), normal), Scale)
        sin_theta == FSqrt(Scale - FMul(cos_theta, cos_theta))
        cannot_refract == FMul(refraction_ratio, sin_theta) > Scale
    IN  Dielectric_choice(
            unit_direction, normal, refraction_ratio,
            cannot_refract
                \/ reflectance(cos_theta, refraction_ratio) > random_value)

\* From unit_direction on: front_face is dot < 0.
Dielectric_unit(unit_direction, hit, random_value) ==
    LET dot == Dot(unit_direction, hit.normal)
    IN  Dielectric_facing(
            unit_direction,
            IF dot < 0 THEN hit.normal ELSE VNeg(hit.normal),
            IF dot < 0 THEN FDiv(Scale, hit.material.ior) ELSE hit.material.ior,
            random_value)

Dielectric(ray, hit, random_value) ==
    Dielectric_unit(Normalize(ray.direction), hit, random_value)

\* What one call of a recorder leaves behind: the path, whether it calls
\* itself again and with which ray, and the branch that made that ray.
Recorded(path, recurse, ray, branch) ==
    [path |-> path, recurse |-> recurse, ray |-> ray, branch |-> branch]

PushPoint(path, point) == [path EXCEPT !.points = Append(@, point)]

\* The push of a segment type without the is_primary override.
PushSegment_unmarked(path, is_primary, segment_type) ==
    [path EXCEPT !.segment_types = Append(@, segment_type)]

PushSegment(path, is_primary, segment_type) ==
    [path EXCEPT !.segment_types =
                     Append(@, IF is_primary THEN "Primary" ELSE segment_type)]

\* The depth == 0 arm pushing both ends of the extension.
Recorder_exhausted_both_ends(ray, path, is_primary) ==
    LET pushed == PushPoint(PushPoint(path, ray.origin), RayAt(ray, 2 * Scale))
    IN  Recorded(PushSegment(pushed, is_primary, "Diffuse"), FALSE, ray, "none")

\* The depth == 0 arm of both recorders.
Recorder_exhausted(ray, path, is_primary) ==
    LET pushed == PushPoint(path, RayAt(ray, 2 * Scale))
    IN  Recorded(IF Len(pushed.points) # 0
                 THEN PushSegment(pushed, is_primary, "Diffuse")
                 ELSE pushed,
                 FALSE, ray, "none")

\* The miss arm tagging its extension as a reflection.
Recorder_miss_reflected(ray, path, is_primary) ==
    Recorded(PushSegment(PushPoint(path, RayAt(ray, 5 * Scale)), is_primary, "Reflection"),
             FALSE, ray, "none")

\* The miss arm of both recorders.
Recorder_miss(ray, path, is_primary) ==
    Recorded(PushSegment(PushPoint(path, RayAt(ray, 5 * Scale)), is_primary, "Diffuse"),
             FALSE, ray, "none")

\* The hit arm without the assignment to path.hit.
AtHit_unflagged(path, hit) == PushPoint(path, hit.point)

\* The hit arm of both recorders: the hit point pushed and path.hit set.
AtHit(path, hit) == [PushPoint(path, hit.point) EXCEPT !.hit = TRUE]

\* The hit arm of both recorders from the next ray's direction and segment
\* type on.
Recorder_bounce(path, hit, is_primary, direction, segment_type) ==
    Recorded(PushSegment(AtHit(path, hit), is_primary, segment_type), TRUE,
             Ray(hit.point, direction), segment_type)

\* The dielectric arm of both recorders from the choice d on.
Recorder_dielectric(path, hit, is_primary, d) ==
    Recorder_bounce(path, hit, is_primary, d.direction,
                    IF d.reflects THEN "Reflection" ELSE "Refraction")

\* trace_path_recursive_raytracing from the closest hit on.
Recorder_raytracing_hit(ray, hit, path, is_primary, draw) ==
    IF ~hit.hit THEN Recorder_miss(ray, path, is_primary)
    ELSE IF hit.material.mat_type = "Dielectric"
    THEN Recorder_dielectric(path, hit, is_primary, Dielectric(ray, hit, draw.f))
    ELSE IF hit.material.reflectivity > 0
    THEN Recorder_bounce(path, hit, is_primary,
                         Reflect(ray.direction, hit.normal), "Reflection")
    ELSE Recorded(PushSegment(AtHit(path, hit), is_primary, "Diffuse"),
                  FALSE, ray, "none")

\* Raytracer::trace_path_recursive_raytracing, one call.
trace_path_recursive_raytracing(ray, scene, depth, path, is_primary, draw) ==
    IF depth = 0 THEN Recorder_exhausted(ray, path, is_primary)
    ELSE Recorder_raytracing_hit(ray, Scene_intersect(scene, ray, Eps, FarT),
                                 path, is_primary, draw)

\* trace_path_recursive_pathtracing from the closest hit on.
Recorder_pathtracing_hit(ray, hit, path, is_primary, draw) ==
    IF ~hit.hit THEN Recorder_miss(ray, path, is_primary)
    ELSE IF hit.material.mat_type = "Lambertian"
    THEN Recorder_bounce(path, hit, is_primary, VAdd(hit.normal, draw.v),
                         "Diffuse")
    ELSE IF hit.material.mat_type = "Metal"
    THEN Recorder_bounce(path, hit, is_primary,
                         VAdd(Reflect(Normalize(ray.direction), hit.normal),
                              VScale(draw.v, hit.material.roughness)),
                         "Reflection")
    ELSE Recorder_dielectric(path, hit, is_primary, Dielectric(ray, hit, draw.f))

\* Raytracer::trace_path_recursive_pathtracing, one call.
trace_path_recursive_pathtracing(ray, scene, depth, path, is_primary, draw) ==
    IF depth = 0 THEN Recorder_exhausted(ray, path, is_primary)
    ELSE Recorder_pathtracing_hit(ray, Scene_intersect(scene, ray, Eps, FarT),
                                  path, is_primary, draw)

\* ------------------------------------------------------------------------
\* Raytracer: the two integrators
\* ------------------------------------------------------------------------

\* The random numbers a call consumes, in order; a tape is read cyclically.
\* Every hit takes one entry of the tape, also where the code's || skips the
\* draw (cannot_refract), the draws being independent of each other.
Draw(tape, pos) == tape[((pos - 1) % Len(tape)) + 1]

\* What a call of an integrator yields: the colour, the tape position after
\* it, how many integrator calls and scene queries it made in all, and how
\* deep its calls were nested, itself included.
Traced(color, pos, calls, queries, nesting) ==
    [color |-> color, pos |-> pos, calls |-> calls, queries |-> queries,
     nesting |-> nesting]

\* A depth == 0 arm that looks at the scene first.
Exhausted_late(ray, scene, pos) ==
    Traced(IF Scene_intersect(scene, ray, Eps, FarT).hit THEN ZERO ELSE ONE, pos, 1, 1, 1)

\* The depth == 0 arm of both integrators.
Exhausted(ray, scene, pos) == Traced(ZERO, pos, 1, 0, 1)

RECURSIVE trace_ray(_, _, _, _, _)

\* The secondary ray's result with the mirror term left in.
Whitted_refracted_added(reflected, refracted, shaded) ==
    Traced(VAdd(refracted.color, reflected.color), refracted.pos,
           1 + reflected.calls + refracted.calls,
           shaded + reflected.queries + refracted.queries,
           1 + Max(reflected.nesting, refracted.nesting))

\* trace_ray at a dielectric hit: the refraction result is what it returns.
Whitted_refracted(reflected, refracted, shaded) ==
    Traced(refracted.color, refracted.pos,
           1 + reflected.calls + refracted.calls,
           shaded + reflected.queries + refracted.queries,
           1 + Max(reflected.nesting, refracted.nesting))

\* trace_ray lines 140-163, from the choice d on.
Whitted_dielectric(scene, depth, tape, hit, reflected, d) ==
    Whitted_refracted(reflected,
                      trace_ray(Ray(hit.point, d.direction), scene, depth - 1,
                                tape, reflected.pos + 1),
                      1 + Len(scene.lights))

\* The colour of a non-dielectric hit with the specular factor added to it.
Whitted_color_glossy(hit, lit, reflected, shaded) ==
    Traced(VAdd(VAdd(lit, VScale(ONE, hit.material.specular)),
                VScale(reflected.color, hit.material.reflectivity)),
           reflected.pos, 1 + reflected.calls, shaded + reflected.queries,
           1 + reflected.nesting)

\* trace_ray at any other hit: ambient, lights and the reflection.
Whitted_color(hit, lit, reflected, shaded) ==
    Traced(VAdd(lit, VScale(reflected.color, hit.material.reflectivity)),
           reflected.pos, 1 + reflected.calls, shaded + reflected.queries,
           1 + reflected.nesting)

\* trace_ray from the reflection's result on.
Whitted_shade(ray, scene, depth, tape, hit, reflected) ==
    IF hit.material.mat_type = "Dielectric"
    THEN Whitted_dielectric(scene, depth, tape, hit, reflected,
                            Dielectric(ray, hit, Draw(tape, reflected.pos).f))
    ELSE Whitted_color(hit,
                       VAdd(VScale(hit.material.color, F(100)),
                            SumLights(TRUE, ray, scene, hit, 1)),
                       reflected, 1 + Len(scene.lights))

\* trace_ray from the closest hit on.
Whitted_hit(ray, scene, depth, tape, pos, hit) ==
    IF ~hit.hit THEN Traced(Sky(ray), pos, 1, 1, 1)
    ELSE Whitted_shade(
             ray, scene, depth, tape, hit,
             IF hit.material.reflectivity > 0
             THEN trace_ray(Ray(hit.point, Reflect(ray.direction, hit.normal)),
                            scene, depth - 1, tape, pos)
             ELSE Traced(ZERO, pos, 0, 0, 0))

\* Raytracer::trace_ray.
trace_ray(ray, scene, depth, tape, pos) ==
    IF depth = 0 THEN Exhausted(ray, scene, pos)
    ELSE Whitted_hit(ray, scene, depth, tape, pos,
                     Scene_intersect(scene, ray, Eps, FarT))

\* trace_ray lines 133-163: the branch whose ray it traces for the colour it
\* returns at a hit, or none.
Whitted_secondary(ray, hit, draw) ==
    IF hit.material.mat_type = "Dielectric"
    THEN IF Dielectric(ray, hit, draw.f).reflects THEN "Reflection" ELSE "Refraction"
    ELSE IF hit.material.reflectivity > 0 THEN "Reflection"
    ELSE "none"

Scattered(absorbed, branch, direction, attenuation) ==
    [absorbed |-> absorbed, branch |-> branch, direction |-> direction,
     attenuation |-> attenuation]

\* A Metal arm that never absorbs.
Scatter_metal_through(hit, scatter_direction) ==
    Scattered(FALSE, "Reflection", scatter_direction, hit.material.color)

\* The Metal arm from scatter_direction on.
Scatter_metal(hit, scatter_direction) ==
    Scattered(Dot(scatter_direction, hit.normal) <= 0, "Reflection",
              scatter_direction, hit.material.color)

\* The Dielectric arm from the choice d on.
Scatter_dielectric(d) ==
    Scattered(FALSE, IF d.reflects THEN "Reflection" ELSE "Refraction",
              d.direction, ONE)

\* trace_pathtrace lines 224-265: the scattered direction, its attenuation
\* and whether the hit absorbs the ray instead.
Scatter(ray, hit, draw) ==
    IF hit.material.mat_type = "Lambertian"
    THEN Scattered(FALSE, "Diffuse", Normalize(VAdd(hit.normal, draw.v)),
                   hit.material.color)
    ELSE IF hit.material.mat_type = "Metal"
    THEN Scatter_metal(hit, VAdd(Reflect(Normalize(ray.direction), hit.normal),
                                 VScale(draw.v, hit.material.roughness)))
    ELSE Scatter_dielectric(Dielectric(ray, hit, draw.f))

\* A classification that takes no metal for specular.
is_specular_glass_only(material) == material.mat_type = "Dielectric"

is_specular(material) ==
    IF material.mat_type = "Dielectric" THEN TRUE
    ELSE IF material.mat_type = "Metal" THEN material.roughness < F(50)
    ELSE FALSE

RECURSIVE trace_pathtrace(_, _, _, _, _)

\* trace_pathtrace from the indirect term on.
Pathtrace_color(direct_light, s, indirect, shaded) ==
    Traced(VAdd(direct_light, VMul(s.attenuation, indirect.color)),
           indirect.pos, 1 + indirect.calls, shaded + indirect.queries,
           1 + indirect.nesting)

\* trace_pathtrace from the scatter s on.
Pathtrace_scattered(scene, depth, tape, pos, hit, direct_light, shaded, s) ==
    IF s.absorbed THEN Traced(direct_light, pos + 1, 1, shaded, 1)
    ELSE Pathtrace_color(direct_light, s,
                         trace_pathtrace(Ray(hit.point, s.direction), scene,
                                         depth - 1, tape, pos + 1),
                         shaded)

\* trace_pathtrace from the closest hit on.
Pathtrace_hit(ray, scene, depth, tape, pos, hit) ==
    IF ~hit.hit THEN Traced(Sky(ray), pos, 1, 1, 1)
    ELSE Pathtrace_scattered(
             scene, depth, tape, pos, hit,
             IF is_specular(hit.material) THEN ZERO
             ELSE SumLights(FALSE, ray, scene, hit, 1),
             1 + (IF is_specular(hit.material) THEN 0 ELSE Len(scene.lights)),
             Scatter(ray, hit, Draw(tape, pos)))

\* Raytracer::trace_pathtrace.
trace_pathtrace(ray, scene, depth, tape, pos) ==
    IF depth = 0 THEN Exhausted(ray, scene, pos)
    ELSE Pathtrace_hit(ray, scene, depth, tape, pos,
                       Scene_intersect(scene, ray, Eps, FarT))

\* ------------------------------------------------------------------------
\* The scene, camera and settings the recorder and the integrators run on
\* ------------------------------------------------------------------------

TurquoiseLambertian ==
    Material(<<F(100), F(800), F(800)>>, F(500), 32, 0, Scale, F(1500), "Lambertian")

KeyLight == Light("Point", <<F(5000), F(6000), F(4000)>>, ZERO,
                  <<Scale, F(980), F(950)>>, F(800))

FillLight == Light("Directional", ZERO, <<F(4000), -F(3000), -F(3000)>>,
                   <<F(950), F(980), Scale>>, F(400))

\* A floor, a diffuse cube, a glass sphere and a rough metal sphere.
StudioScene ==
    Scene(<<Sphere(<<0, Scale, 0>>, F(500), Glass),
            Sphere(<<-F(1500), Scale, 0>>, F(500), BlueMetal)>>,
          <<Cube(<<Scale, -F(500), -F(500)>>, <<2 * Scale, F(500), F(500)>>,
                 TurquoiseLambertian)>>,
          <<Plane(<<0, -F(500), 0>>, <<0, Scale, 0>>, FloorMaterial)>>,
          <<KeyLight, FillLight>>)

EmptyScene == Scene(<<>>, <<>>, <<>>, <<KeyLight>>)

TScenes == {StudioScene, EmptyScene}

\* A metal whose reflectivity is 0.
DullMetal ==
    Material(<<F(300), F(600), F(900)>>, F(900), 8, 0, F(300), F(1300), "Metal")

\* The primitives of the studio with no glass and no mirror, and no light.
UnlitScene ==
    Scene(<<Sphere(<<0, Scale, 0>>, F(500), RedLambertian),
            Sphere(<<-F(1500), Scale, 0>>, F(500), DullMetal)>>,
          <<Cube(<<Scale, -F(500), -F(500)>>, <<2 * Scale, F(500), F(500)>>,
                 TurquoiseLambertian)>>,
          <<Plane(<<0, -F(500), 0>>, <<0, Scale, 0>>, FloorMaterial)>>,
          <<>>)

\* Nothing at all.
VoidScene == Scene(<<>>, <<>>, <<>>, <<>>)

\* A metal smooth enough for trace_pathtrace to treat it as specular.
PolishedMetal ==
    Material(<<F(900), F(800), F(700)>>, F(500), 32, F(500), F(20), F(1500), "Metal")

LampLight == Light("Point", <<0, F(500), 0>>, ZERO, ONE, Scale)

SunLight == Light("Directional", ZERO, <<0, -Scale, 0>>, ONE, F(500))

\* A lamp one unit above the floor, a polished ball hanging two units above the
\* lamp, and a sun straight overhead.
LampScene ==
    Scene(<<Sphere(<<0, 3 * Scale, 0>>, F(500), PolishedMetal)>>,
          <<>>,
          <<Plane(<<0, -F(500), 0>>, <<0, Scale, 0>>, FloorMaterial)>>,
          <<LampLight, SunLight>>)

\* The scenes an integrator call is run on.
ShadeScenes == TScenes \cup {UnlitScene, VoidScene, LampScene}

TCamera == Camera(<<0, Scale, 4 * Scale>>, <<0, Scale, 0>>, 45, 1777778)

\* Image coordinates towards the metal sphere's rim, the glass sphere, the
\* cube, the floor and the sky.
ImageU == {F(160), F(500), F(750)}

ImageV == {F(100), F(440), F(900)}

\* The image coordinates (u, v) the generator of trace_paths yields here:
\* towards the metal sphere, the glass sphere, the floor and the sky.
RandomUV == {<<F(160), F(440)>>, <<F(500), F(440)>>, <<F(500), F(100)>>,
             <<F(840), F(440)>>}

MaxBounces == 2

MaxCount == 2

TapeLen == 2

\* The random streams an integrator call is run on.
Tapes == [1..TapeLen -> Draws]

\* The rays handed to an integrator call: camera rays, one from inside the
\* glass sphere, and rays straight up and straight down from two origins.
ShadeRays ==
    {get_ray(TCamera, u, v) : u \in ImageU, v \in ImageV}
        \cup {Ray(<<0, Scale, 0>>, <<0, 0, -Scale>>)}
        \cup {Ray(o, d) : o \in {<<0, Scale, 0>>, <<3 * Scale, 2 * Scale, Scale>>},
                          d \in {<<0, Scale, 0>>, <<0, -Scale, 0>>}}

\* ------------------------------------------------------------------------
\* Raytracer::render: the pixel loop
\* ------------------------------------------------------------------------

MaxWidth == 2

MaxHeight == 2

MaxSamples == 2

\* The random streams a render is run on.
RenderTapes ==
    {<<RandomDraw(F32Unit - 1, <<F(800), F(600), 0>>),
       RandomDraw(0, <<0, F(600), F(800)>>),
       RandomDraw(F32Unit \div 2, <<-F(600), 0, F(800)>>)>>,
     <<RandomDraw(F32Unit \div 2, <<0, F(600), F(800)>>),
       RandomDraw(F32Unit - 1, <<-F(600), 0, F(800)>>)>>}

\* (x as f32 + random) / extent as f32, the sum rounded as an f32.
Jitter(x, random, extent) ==
    FDiv(ToScale(RoundF32(x * F32Unit + random)), extent * Scale)

SampleU(self, x, random_u) == Jitter(x, random_u, self.width)

\* The same with the rows counted from the bottom.
SampleV_unflipped(self, y, random_v) == Jitter(y, random_v, self.height)

SampleV(self, y, random_v) == Scale - Jitter(y, random_v, self.height)

Clamp(c, lo, hi) == Max(lo, Min(c, hi))

\* (c.clamp(0.0, 1.0) * 255.0) as u8
ToByte(c) == (Clamp(c, 0, Scale) * 255) \div Scale

\* The pixel (x, y) stored column after column.
PixelIndex_columns(self, x, y) == (x * self.height + y) * 4

\* ((y * self.width + x) * 4) as usize
PixelIndex(self, x, y) == (y * self.width + x) * 4

\* buffer[index] = r; ... buffer[index + 3] = 255, on a Vec indexed from 0.
WriteRGBA(buffer, index, r, g, b) ==
    [k \in 1..Len(buffer) |->
        IF k = index + 1 THEN r
        ELSE IF k = index + 2 THEN g
        ELSE IF k = index + 3 THEN b
        ELSE IF k = index + 4 THEN 255
        ELSE buffer[k]]

\* ------------------------------------------------------------------------
\* State
\* ------------------------------------------------------------------------

VARIABLES
    qScene,     \* closest-hit query: the scene queried
    qRay,       \* closest-hit query: the ray
    qWin,       \* closest-hit query: the window <<t_min, t_max>>
    qOp,        \* which intersect was called: none, scene, sphere, cube, plane
    qIdx,       \* the index of the primitive whose intersect was called
    qRes,       \* the Option<HitRecord> returned
    raytracer,  \* the Raytracer settings (self)
    scene,      \* the scene handed to render and trace_paths
    camera,     \* the camera handed to them
    count,      \* trace_paths: the number of paths asked for
    paths,      \* trace_paths: the paths pushed so far
    pc,         \* trace_paths: idle, loop, recording, returned
    ray,        \* recorder call: its ray
    depth,      \* recorder call: its depth
    is_primary, \* recorder call: its is_primary
    path,       \* recorder call: the path it appends to
    made,       \* for each ray of the current path, the branch that created it
    made_paths, \* made, for each path pushed
    recorder,   \* the recorder trace_paths called last, or none
    tape,       \* the random stream of an integrator call or a render
    sRay,       \* integrator call: its ray
    sDepth,     \* integrator call: its depth
    sOp,        \* which integrator was called: none, trace_ray, trace_pathtrace
    sRes,       \* integrator call: what it yielded
    x,          \* render: the column of the pixel being sampled
    y,          \* render: its row
    sample,     \* render: the samples taken of that pixel so far
    color,      \* render: their sum
    pos,        \* render: the position in the random stream
    buffer,     \* render: the byte buffer
    rpc,        \* render: idle, sampling, returned
    samples,    \* every sample taken: pixel, u, v, integrator, depth, calls
    shaded,     \* every pixel written: pixel, bytes, index
    ui_state,   \* the application's UiState
    raytraced_texture, \* the application's Option<TextureHandle>
    ray_paths   \* the application's Vec<RayPath>, which the 3D view draws

qvars == <<qScene, qRay, qWin, qOp, qIdx, qRes>>

tvars == <<raytracer, scene, camera, count, paths, pc, ray, depth, is_primary, path,
           made, made_paths, recorder>>

svars == <<tape, sRay, sDepth, sOp, sRes>>

rvars == <<x, y, sample, color, pos, buffer, rpc, samples, shaded>>

avars == <<ui_state, raytraced_texture, ray_paths>>

vars == <<qvars, tvars, svars, rvars, avars>>

DefaultRaytracer == Raytracer(200, 150, 3, 1, "Raytracing")

\* A call that empties the scene it was handed.
Scene_drained ==
    /\ raytracer' = raytracer
    /\ camera' = camera
    /\ scene' = EmptyScene

\* render(&self, scene: &Scene, camera: &Camera) and trace_paths(&self,
\* scene: &Scene, camera: &Camera, count): the three are shared borrows, which
\* a step of either call leaves as they are.
Borrowed == UNCHANGED <<raytracer, scene, camera>>

NoRay == Ray(ZERO, ZERO)

NoPath == RayPath(<<>>, <<>>, FALSE)

QueryIdle ==
    /\ qScene = EmptyScene
    /\ qRay = NoRay
    /\ qWin = <<Eps, FarT>>
    /\ qOp = "idle"
    /\ qIdx = 0
    /\ qRes = None

ShadeIdle ==
    /\ sRay = NoRay
    /\ sDepth = 0
    /\ sOp = "idle"
    /\ sRes = Traced(ZERO, 1, 0, 0, 0)

RenderIdle ==
    /\ x = 0
    /\ y = 0
    /\ sample = 0
    /\ color = ZERO
    /\ pos = 1
    /\ buffer = <<>>
    /\ rpc = "idle"
    /\ samples = <<>>
    /\ shaded = <<>>

NoTape == <<RandomDraw(0, <<0, Scale, 0>>)>>

\* UiState: the fields render_controls reads and writes.
UiState(camera_yaw, camera_pitch, auto_update, show_rays, ray_count) ==
    [camera_yaw |-> camera_yaw, camera_pitch |-> camera_pitch,
     auto_update |-> auto_update, show_rays |-> show_rays,
     ray_count |-> ray_count]

\* No application around the raytracer: nothing displayed, nothing stored.
AppIdle ==
    /\ ui_state = UiState(0, 0, TRUE, TRUE, 25)
    /\ raytraced_texture = <<>>
    /\ ray_paths = <<>>

TraceIdle ==
    /\ raytracer = DefaultRaytracer
    /\ scene = EmptyScene
    /\ camera = TCamera
    /\ tape = NoTape
    /\ ShadeIdle
    /\ RenderIdle
    /\ AppIdle
    /\ count = 0
    /\ paths = <<>>
    /\ pc = "idle"
    /\ ray = NoRay
    /\ depth = 0
    /\ is_primary = FALSE
    /\ path = NoPath
    /\ made = <<>>
    /\ made_paths = <<>>
    /\ recorder = "none"

\* ------------------------------------------------------------------------
\* Closest-hit queries: Scene::intersect and the primitives' intersect
\* applied to the inputs drawn by the initial state
\* ------------------------------------------------------------------------

InitQuery ==
    /\ qScene \in QScenes
    /\ qRay \in QRays
    /\ qWin \in QWindows
    /\ qOp = "none"
    /\ qIdx = 0
    /\ qRes = None
    /\ TraceIdle

QueryScene ==
    /\ qOp = "none"
    /\ qOp' = "scene"
    /\ qIdx' = 0
    /\ qRes' = Scene_intersect(qScene, qRay, qWin[1], qWin[2])
    /\ UNCHANGED <<avars, qScene, qRay, qWin, tvars, svars, rvars>>

QuerySphere ==
    /\ qOp = "none"
    /\ \E i \in 1..Len(qScene.spheres) :
         /\ qIdx' = i
         /\ qRes' = Sphere_intersect(qScene.spheres[i], qRay, qWin[1], qWin[2])
    /\ qOp' = "sphere"
    /\ UNCHANGED <<avars, qScene, qRay, qWin, tvars, svars, rvars>>

QueryCube ==
    /\ qOp = "none"
    /\ \E i \in 1..Len(qScene.cubes) :
         /\ qIdx' = i
         /\ qRes' = Cube_intersect(qScene.cubes[i], qRay, qWin[1], qWin[2])
    /\ qOp' = "cube"
    /\ UNCHANGED <<avars, qScene, qRay, qWin, tvars, svars, rvars>>

QueryPlane ==
    /\ qOp = "none"
    /\ \E i \in 1..Len(qScene.planes) :
         /\ qIdx' = i
         /\ qRes' = Plane_intersect(qScene.planes[i], qRay, qWin[1], qWin[2])
    /\ qOp' = "plane"
    /\ UNCHANGED <<avars, qScene, qRay, qWin, tvars, svars, rvars>>

NextQuery == QueryScene \/ QuerySphere \/ QueryCube \/ QueryPlane

SpecQuery == InitQuery /\ [][NextQuery]_vars

\* ------------------------------------------------------------------------
\* Raytracer::trace_paths: the loop over count and, inside it, the calls of
\* the recorder the mode selects
\* ------------------------------------------------------------------------

InitTrace ==
    /\ QueryIdle
    /\ AppIdle
    /\ tape = NoTape
    /\ ShadeIdle
    /\ RenderIdle
    /\ \E max_bounces \in 0..MaxBounces, mode \in RenderMode :
         raytracer = Raytracer(200, 150, max_bounces, 1, mode)
    /\ scene \in TScenes
    /\ camera = TCamera
    /\ count \in 0..MaxCount
    /\ paths = <<>>
    /\ pc = "loop"
    /\ ray = NoRay
    /\ depth = 0
    /\ is_primary = FALSE
    /\ path = NoPath
    /\ made = <<>>
    /\ made_paths = <<>>
    /\ recorder = "none"

\* An iteration's head that hands the recorder one level more.
StartPath_deeper ==
    /\ pc = "loop"
    /\ Len(paths) < count
    /\ \E uv \in RandomUV :
         /\ ray' = get_ray(camera, uv[1], uv[2])
         /\ path' = RayPath(<<get_ray(camera, uv[1], uv[2]).origin>>, <<>>, FALSE)
    /\ depth' = raytracer.max_bounces + 1
    /\ is_primary' = TRUE
    /\ made' = <<"Primary">>
    /\ pc' = "recording"
    /\ Borrowed
    /\ UNCHANGED <<avars, qvars, svars, rvars, count, paths, made_paths, recorder>>

\* One iteration's head: the primary ray and the fresh path.
StartPath ==
    /\ pc = "loop"
    /\ Len(paths) < count
    /\ \E uv \in RandomUV :
         /\ ray' = get_ray(camera, uv[1], uv[2])
         /\ path' = RayPath(<<get_ray(camera, uv[1], uv[2]).origin>>, <<>>, FALSE)
    /\ depth' = raytracer.max_bounces
    /\ is_primary' = TRUE
    /\ made' = <<"Primary">>
    /\ pc' = "recording"
    /\ Borrowed
    /\ UNCHANGED <<avars, qvars, svars, rvars, count, paths, made_paths, recorder>>

\* One call of a recorder: it either calls itself again or returns to the
\* loop, which pushes the path.
Record(r) ==
    /\ path' = r.path
    /\ IF r.recurse
       THEN /\ ray' = r.ray
            /\ depth' = depth - 1
            /\ is_primary' = FALSE
            /\ made' = Append(made, r.branch)
            /\ UNCHANGED <<paths, made_paths, pc>>
       ELSE /\ paths' = Append(paths, r.path)
            /\ made_paths' = Append(made_paths, made)
            /\ pc' = "loop"
            /\ UNCHANGED <<ray, depth, is_primary, made>>
    /\ Borrowed
    /\ UNCHANGED <<avars, qvars, svars, rvars, count>>

\* The Raytracing arm of the match calling the other recorder.
RecordRaytracing_swapped ==
    /\ pc = "recording"
    /\ raytracer.mode = "Raytracing"
    /\ recorder' = "trace_path_recursive_pathtracing"
    /\ \E draw \in Draws :
         Record(trace_path_recursive_pathtracing(ray, scene, depth, path,
                                                 is_primary, draw))

RecordRaytracing ==
    /\ pc = "recording"
    /\ raytracer.mode = "Raytracing"
    /\ recorder' = "trace_path_recursive_raytracing"
    /\ \E draw \in Draws :
         Record(trace_path_recursive_raytracing(ray, scene, depth, path,
                                                is_primary, draw))

RecordPathtracing ==
    /\ pc = "recording"
    /\ raytracer.mode = "Pathtracing"
    /\ recorder' = "trace_path_recursive_pathtracing"
    /\ \E draw \in Draws :
         Record(trace_path_recursive_pathtracing(ray, scene, depth, path,
                                                 is_primary, draw))

ReturnPaths ==
    /\ pc = "loop"
    /\ Len(paths) >= count
    /\ pc' = "returned"
    /\ Borrowed
    /\ UNCHANGED <<avars, qvars, svars, rvars, count, paths, ray, depth,
                   is_primary, path, made, made_paths, recorder>>

NextTrace == StartPath \/ RecordRaytracing \/ RecordPathtracing \/ ReturnPaths

SpecTrace == InitTrace /\ [][NextTrace]_vars

\* ------------------------------------------------------------------------
\* The integrators applied to the inputs drawn by the initial state
\* ------------------------------------------------------------------------

RecorderIdle ==
    /\ count = 0
    /\ paths = <<>>
    /\ pc = "idle"
    /\ ray = NoRay
    /\ depth = 0
    /\ is_primary = FALSE
    /\ path = NoPath
    /\ made = <<>>
    /\ made_paths = <<>>
    /\ recorder = "none"

rec == <<count, paths, pc, ray, depth, is_primary, path, made, made_paths,
        recorder>>

InitShade ==
    /\ QueryIdle
    /\ AppIdle
    /\ RecorderIdle
    /\ RenderIdle
    /\ raytracer = DefaultRaytracer
    /\ scene \in ShadeScenes
    /\ camera = TCamera
    /\ tape \in Tapes
    /\ sRay \in ShadeRays
    /\ sDepth \in 0..MaxBounces
    /\ sOp = "none"
    /\ sRes = Traced(ZERO, 1, 0, 0, 0)

CallTraceRay ==
    /\ sOp = "none"
    /\ sOp' = "trace_ray"
    /\ sRes' = trace_ray(sRay, scene, sDepth, tape, 1)
    /\ UNCHANGED <<avars, qvars, rec, rvars, raytracer, scene, camera, tape, sRay, sDepth>>

CallTracePathtrace ==
    /\ sOp = "none"
    /\ sOp' = "trace_pathtrace"
    /\ sRes' = trace_pathtrace(sRay, scene, sDepth, tape, 1)
    /\ UNCHANGED <<avars, qvars, rec, rvars, raytracer, scene, camera, tape, sRay, sDepth>>

NextShade == CallTraceRay \/ CallTracePathtrace

SpecShade == InitShade /\ [][NextShade]_vars

\* ------------------------------------------------------------------------
\* Raytracer::render, sample by sample and pixel by pixel
\* ------------------------------------------------------------------------

InitRender ==
    /\ QueryIdle
    /\ AppIdle
    /\ RecorderIdle
    /\ ShadeIdle
    /\ \E width \in 1..MaxWidth, height \in 1..MaxHeight,
          max_bounces \in 0..MaxBounces, samples_per_pixel \in 1..MaxSamples,
          mode \in RenderMode :
         /\ raytracer = Raytracer(width, height, max_bounces, samples_per_pixel, mode)
         /\ buffer = [k \in 1..(width * height * 4) |-> 0]
    /\ scene \in TScenes
    /\ camera = TCamera
    /\ tape \in RenderTapes
    /\ x = 0
    /\ y = 0
    /\ sample = 0
    /\ color = ZERO
    /\ pos = 1
    /\ rpc = "sampling"
    /\ samples = <<>>
    /\ shaded = <<>>

\* render lines 68-75: the integrator the mode selects, called at depth
\* max_bounces.
Route(self, primary, sc, randoms, at) ==
    IF self.mode = "Raytracing"
    THEN trace_ray(primary, sc, self.max_bounces, randoms, at)
    ELSE trace_pathtrace(primary, sc, self.max_bounces, randoms, at)

\* A pass of the loop from the integrator's result on.
Accumulate(u, v, traced) ==
    /\ color' = VAdd(color, traced.color)
    /\ pos' = ((traced.pos - 1) % Len(tape)) + 1
    /\ samples' =
           Append(samples,
                  [x |-> x, y |-> y, u |-> u, v |-> v,
                   integrator |-> IF raytracer.mode = "Raytracing"
                                  THEN "trace_ray" ELSE "trace_pathtrace",
                   depth |-> raytracer.max_bounces,
                   traced |-> traced.color])

\* A pass of the loop from u and v on.
SampleAt(u, v) ==
    Accumulate(u, v, Route(raytracer, get_ray(camera, u, v), scene, tape, pos + 2))

\* One pass of the loop over samples_per_pixel.
Sample ==
    /\ rpc = "sampling"
    /\ sample < raytracer.samples_per_pixel
    /\ SampleAt(SampleU(raytracer, x, Draw(tape, pos).bits),
                SampleV(raytracer, y, Draw(tape, pos + 1).bits))
    /\ sample' = sample + 1
    /\ Borrowed
    /\ UNCHANGED <<avars, qvars, rec, svars, x, y, buffer, rpc, shaded>>

\* The end of a pixel from the average on.
WriteAverage(average) ==
    LET r == ToByte(average[1])
        g == ToByte(average[2])
        b == ToByte(average[3])
        index == PixelIndex(raytracer, x, y)
    IN  /\ buffer' = WriteRGBA(buffer, index, r, g, b)
        /\ shaded' = Append(shaded, [x |-> x, y |-> y, rgb |-> <<r, g, b>>,
                                     index |-> index])

\* The end of a pixel: the average, the bytes, the write, and the step to
\* the next pixel or the return of the buffer.
WritePixel ==
    /\ rpc = "sampling"
    /\ sample = raytracer.samples_per_pixel
    /\ WriteAverage(VDiv(color, raytracer.samples_per_pixel * Scale))
    /\ color' = ZERO
    /\ sample' = 0
    /\ IF x + 1 < raytracer.width
       THEN /\ x' = x + 1
            /\ UNCHANGED <<y, rpc>>
       ELSE /\ x' = 0
            /\ y' = y + 1
            /\ rpc' = IF y + 1 < raytracer.height THEN "sampling" ELSE "returned"
    /\ Borrowed
    /\ UNCHANGED <<avars, qvars, rec, svars, pos, samples>>

NextRender == Sample \/ WritePixel

SpecRender == InitRender /\ [][NextRender]_vars

\* ------------------------------------------------------------------------
\* Calls of render and of trace_paths, one after another, on the same
\* raytracer, scene and camera (app.rs, update_raytrace)
\* ------------------------------------------------------------------------

\* Another trace_paths call after one has returned: paths is a new Vec and
\* the locals of the call before are gone.
TracePathsAgain ==
    /\ pc = "returned"
    /\ pc' = "loop"
    /\ paths' = <<>>
    /\ ray' = NoRay
    /\ depth' = 0
    /\ is_primary' = FALSE
    /\ path' = NoPath
    /\ made' = <<>>
    /\ made_paths' = <<>>
    /\ recorder' = "none"
    /\ Borrowed
    /\ UNCHANGED <<avars, qvars, svars, rvars, count>>

\* Another render call after one has returned: buffer is a new Vec of
\* zeroes; thread_rng() goes on from where it was.
RenderAgain ==
    /\ rpc = "returned"
    /\ rpc' = "sampling"
    /\ buffer' = [k \in 1..(raytracer.width * raytracer.height * 4) |-> 0]
    /\ x' = 0
    /\ y' = 0
    /\ sample' = 0
    /\ color' = ZERO
    /\ samples' = <<>>
    /\ shaded' = <<>>
    /\ Borrowed
    /\ UNCHANGED <<avars, qvars, rec, svars, pos>>

InitCalls == InitTrace \/ InitRender

NextCalls == NextTrace \/ TracePathsAgain \/ NextRender \/ RenderAgain

SpecCalls == InitCalls /\ [][NextCalls]_vars

\* ------------------------------------------------------------------------
\* The four recursive procedures side by side: a run of trace_paths with its
\* recorder calls, or one call of an integrator
\* ------------------------------------------------------------------------

InitDepth == InitTrace \/ InitShade

NextDepth == NextTrace \/ NextShade

SpecDepth == InitDepth /\ [][NextDepth]_vars

\* ------------------------------------------------------------------------
\* The application: RaytracerApp::new, and one frame of RaytracerApp::update
\* with the widget of the controls panel the user acted on
\* ------------------------------------------------------------------------

FillPointLight ==
    Light("Point", <<-F(4000), F(3000), F(3000)>>, ZERO,
          <<F(950), F(980), Scale>>, F(400))

RimLight == Light("Point", <<0, F(7000), -F(5000)>>, ZERO, ONE, F(500))

\* Scene::default: its three point lights, over the primitives of StudioScene.
DefaultScene ==
    Scene(StudioScene.spheres, StudioScene.cubes, StudioScene.planes,
          <<KeyLight, FillPointLight, RimLight>>)

\* The light "Add Point Light" pushes.
AddedLight == Light("Point", <<0, 2 * Scale, 0>>, ZERO, ONE, Scale)

\* The camera RaytracerApp::new makes.
DefaultCamera == Camera(<<0, F(2500), 6 * Scale>>, ZERO, 45, 1777778)

\* sin and cos of an angle in degrees, for the angles the frames use: 0, 90
\* and the pitch of the default camera, -22.619865.
SinDeg(a) ==
    CASE a = 0 -> 0
      [] a = 90 * Scale -> Scale
      [] a = -22619865 -> -384615

CosDeg(a) ==
    CASE a = 0 -> Scale
      [] a = 90 * Scale -> 0
      [] a = -22619865 -> 923077

\* Quat::from_euler(EulerRot::YXZ, yaw, pitch, 0.0), as the basis it rotates
\* to; yaw and pitch in degrees.
from_euler(yaw, pitch) ==
    [right |-> <<CosDeg(yaw), 0, -SinDeg(yaw)>>,
     up |-> <<FMul(SinDeg(yaw), SinDeg(pitch)), CosDeg(pitch),
              FMul(CosDeg(yaw), SinDeg(pitch))>>,
     back |-> <<FMul(SinDeg(yaw), CosDeg(pitch)), -SinDeg(pitch),
                FMul(CosDeg(yaw), CosDeg(pitch))>>]

\* rotation.to_euler(EulerRot::YXZ), in degrees, of a rotation look_at made
\* from a position on the z axis or above it: yaw atan2(back.x, back.z) and
\* pitch asin(-back.y).
to_euler_yaw(rotation) == IF rotation.back[1] = 0 THEN 0 ELSE 90 * Scale

to_euler_pitch(rotation) == IF rotation.back[2] = 0 THEN 0 ELSE -22619865

\* What render_controls borrows mutably, with its local changed.
Controls(cam, ui, rt, sc, changed, trigger_render) ==
    [camera |-> cam, ui_state |-> ui, raytracer |-> rt, scene |-> sc,
     changed |-> changed, trigger_render |-> trigger_render]

\* The widget acted on in a frame and the value it was given.
Event(kind, value) == [kind |-> kind, value |-> value]

\* The position DragValues.
Drag_position(e, c) ==
    IF e.kind = "position" /\ e.value # c.camera.transform.position
    THEN [c EXCEPT !.camera.transform.position = e.value, !.changed = TRUE]
    ELSE c

\* The pitch and yaw DragValues.
Drag_rotation(e, c) ==
    IF e.kind = "pitch" /\ e.value # c.ui_state.camera_pitch
    THEN [c EXCEPT !.ui_state.camera_pitch = e.value, !.changed = TRUE]
    ELSE IF e.kind = "yaw" /\ e.value # c.ui_state.camera_yaw
    THEN [c EXCEPT !.ui_state.camera_yaw = e.value, !.changed = TRUE]
    ELSE c

\* if changed: the rotation from pitch and yaw.
Rotate_camera(c) ==
    IF c.changed
    THEN [c EXCEPT !.camera.transform.rotation =
                       from_euler(c.ui_state.camera_yaw, c.ui_state.camera_pitch)]
    ELSE c

\* "Reset View", from the transform look_at leaves.
Reset_view_to(c, transform) ==
    [c EXCEPT !.camera.transform = transform,
              !.ui_state.camera_yaw = to_euler_yaw(transform.rotation),
              !.ui_state.camera_pitch = to_euler_pitch(transform.rotation),
              !.trigger_render = TRUE]

Reset_view(e, c) ==
    IF e.kind = "reset_view"
    THEN Reset_view_to(c, look_at(c.camera.transform.position, ZERO))
    ELSE c

\* The FOV slider, 10.0..=120.0.
Slide_fov(e, c) ==
    IF e.kind = "fov" /\ e.value \in 10..120 /\ e.value # c.camera.fov
    THEN [c EXCEPT !.camera.fov = e.value, !.changed = TRUE]
    ELSE c

\* The resolution scale slider with the scale truncated before the products.
Slide_scale_truncated(e, c) ==
    IF /\ e.kind = "scale"
       /\ e.value >= F(500)
       /\ e.value <= 4 * Scale
       /\ e.value # FDiv(c.raytracer.width * Scale, 100 * Scale)
    THEN [c EXCEPT !.raytracer.width = 100 * (e.value \div Scale),
                   !.raytracer.height = 75 * (e.value \div Scale),
                   !.trigger_render = TRUE]
    ELSE c

\* The resolution scale slider, 0.5..=4.0: scale starts as width / 100.0, and
\* width and height are 100.0 * scale and 75.0 * scale as u32.
Slide_scale(e, c) ==
    IF /\ e.kind = "scale"
       /\ e.value >= F(500)
       /\ e.value <= 4 * Scale
       /\ e.value # FDiv(c.raytracer.width * Scale, 100 * Scale)
    THEN [c EXCEPT !.raytracer.width = FMul(100 * Scale, e.value) \div Scale,
                   !.raytracer.height = FMul(75 * Scale, e.value) \div Scale,
                   !.trigger_render = TRUE]
    ELSE c

\* The mode ComboBox.
Select_mode(e, c) ==
    IF e.kind = "mode" /\ e.value \in RenderMode /\ e.value # c.raytracer.mode
    THEN [c EXCEPT !.raytracer.mode = e.value, !.trigger_render = TRUE]
    ELSE c

\* The "Max Bounces" slider, 0..=10.
Slide_max_bounces(e, c) ==
    IF /\ e.kind = "max_bounces"
       /\ e.value \in 0..10
       /\ e.value # c.raytracer.max_bounces
    THEN [c EXCEPT !.raytracer.max_bounces = e.value, !.trigger_render = TRUE]
    ELSE c

\* The "Samples/Pixel" slider, 1..=16.
Slide_samples(e, c) ==
    IF /\ e.kind = "samples_per_pixel"
       /\ e.value \in 1..16
       /\ e.value # c.raytracer.samples_per_pixel
    THEN [c EXCEPT !.raytracer.samples_per_pixel = e.value,
                   !.trigger_render = TRUE]
    ELSE c

\* The "Auto Update" checkbox.
Check_auto_update(e, c) ==
    IF e.kind = "auto_update"
    THEN [c EXCEPT !.ui_state.auto_update = ~c.ui_state.auto_update]
    ELSE c

\* "Render Now".
Click_render_now(e, c) ==
    IF e.kind = "render_now" THEN [c EXCEPT !.trigger_render = TRUE] ELSE c

\* The "Show Ray Paths" checkbox: a render if it was turned on.
Check_show_rays(e, c) ==
    IF e.kind = "show_rays"
    THEN [c EXCEPT !.ui_state.show_rays = ~c.ui_state.show_rays,
                   !.trigger_render = c.trigger_render \/ ~c.ui_state.show_rays]
    ELSE c

\* The "Ray Count" slider, 1..=200, there while show_rays.
Slide_ray_count(e, c) ==
    IF /\ c.ui_state.show_rays
       /\ e.kind = "ray_count"
       /\ e.value \in 1..200
       /\ e.value # c.ui_state.ray_count
    THEN [c EXCEPT !.ui_state.ray_count = e.value, !.trigger_render = TRUE]
    ELSE c

\* if changed && ui_state.auto_update.
Auto_update(c) ==
    IF c.changed /\ c.ui_state.auto_update
    THEN [c EXCEPT !.trigger_render = TRUE]
    ELSE c

\* "Add Point Light".
Add_point_light(e, c) ==
    IF e.kind = "add_light"
    THEN [c EXCEPT !.scene.lights = Append(@, AddedLight),
                   !.trigger_render = TRUE]
    ELSE c

\* The intensity slider, 0.0..=5.0, of the point light at e.value[1].
Slide_intensity(e, c) ==
    IF /\ e.kind = "intensity"
       /\ e.value[1] \in 1..Len(c.scene.lights)
       /\ c.scene.lights[e.value[1]].light_type = "Point"
       /\ e.value[2] >= 0
       /\ e.value[2] <= 5 * Scale
       /\ e.value[2] # c.scene.lights[e.value[1]].intensity
    THEN [c EXCEPT !.scene.lights[e.value[1]].intensity = e.value[2],
                   !.trigger_render = TRUE]
    ELSE c

\* "Remove" of the point light at e.value, done after the loop.
Remove_light(e, c) ==
    IF /\ e.kind = "remove_light"
       /\ e.value \in 1..Len(c.scene.lights)
       /\ c.scene.lights[e.value].light_type = "Point"
    THEN [c EXCEPT !.scene.lights =
                       SubSeq(@, 1, e.value - 1) \o SubSeq(@, e.value + 1, Len(@)),
                   !.trigger_render = TRUE]
    ELSE c

\* render_controls, the widgets in the order of the code. The block of the
\* directional light is not there: the scene has point lights only.
render_controls(e, c) ==
    Remove_light(e, Slide_intensity(e, Add_point_light(e, Auto_update(
    Slide_ray_count(e, Check_show_rays(e, Click_render_now(e,
    Check_auto_update(e, Slide_samples(e, Slide_max_bounces(e,
    Select_mode(e, Slide_scale(e, Slide_fov(e, Reset_view(e,
    Rotate_camera(Drag_rotation(e, Drag_position(e, c)))))))))))))))))

\* The texture update_raytrace loads: the image render made, as what it was
\* made from.
Texture(rt, sc, cam) == [raytracer |-> rt, lights |-> sc.lights, camera |-> cam]

\* The paths trace_paths returns, each as the origin of its primary ray.
Traced_paths(cam, n) == [k \in 1..n |-> cam.transform.position]

\* RaytracerApp::update_raytrace.
update_raytrace(c) ==
    /\ raytraced_texture' = <<Texture(c.raytracer, c.scene, c.camera)>>
    /\ ray_paths' = IF c.ui_state.show_rays
                    THEN Traced_paths(c.camera, c.ui_state.ray_count)
                    ELSE <<>>

\* RaytracerApp::update from what render_controls left.
Update_from(c) ==
    /\ camera' = c.camera
    /\ ui_state' = c.ui_state
    /\ raytracer' = c.raytracer
    /\ scene' = c.scene
    /\ IF c.trigger_render
       THEN update_raytrace(c)
       ELSE UNCHANGED <<raytraced_texture, ray_paths>>
    /\ UNCHANGED <<qvars, rec, svars, rvars>>

\* RaytracerApp::update: one frame.
Update(e) ==
    Update_from(render_controls(e, Controls(camera, ui_state, raytracer, scene,
                                            FALSE, FALSE)))

\* The state RaytracerApp::new returns: the defaults, rendered once.
InitApp ==
    /\ QueryIdle
    /\ RecorderIdle
    /\ ShadeIdle
    /\ RenderIdle
    /\ tape = NoTape
    /\ raytracer = DefaultRaytracer
    /\ scene = DefaultScene
    /\ camera = DefaultCamera
    /\ ui_state = UiState(to_euler_yaw(DefaultCamera.transform.rotation),
                          to_euler_pitch(DefaultCamera.transform.rotation),
                          TRUE, TRUE, 25)
    /\ raytraced_texture = <<Texture(DefaultRaytracer, DefaultScene, DefaultCamera)>>
    /\ ray_paths = Traced_paths(DefaultCamera, 25)

\* The frames, by the widget acted on.
UiPositions == {<<0, F(2500), 6 * Scale>>, <<0, 0, 6 * Scale>>}

UiPitches == {0, -22619865}

UiYaws == {0, 90 * Scale}

UiFovs == {45, 90}

UiScales == {F(500), 2 * Scale, 4 * Scale}

UiBounces == {0, 3, 10}

UiSamples == {1, 16}

UiRayCounts == {1, 25}

UiIntensities == {F(800), 5 * Scale}

MaxLights == 4

FramePosition ==
    /\ \E v \in UiPositions : Update(Event("position", v))

FramePitch ==
    /\ \E v \in UiPitches : Update(Event("pitch", v))

FrameYaw ==
    /\ \E v \in UiYaws : Update(Event("yaw", v))

FrameResetView ==
    /\ Update(Event("reset_view", 0))

FrameFov ==
    /\ \E v \in UiFovs : Update(Event("fov", v))

FrameScale ==
    /\ \E v \in UiScales : Update(Event("scale", v))

FrameMode ==
    /\ \E v \in RenderMode : Update(Event("mode", v))

FrameMaxBounces ==
    /\ \E v \in UiBounces : Update(Event("max_bounces", v))

FrameSamples ==
    /\ \E v \in UiSamples : Update(Event("samples_per_pixel", v))

FrameAutoUpdate ==
    /\ Update(Event("auto_update", 0))

FrameRenderNow ==
    /\ Update(Event("render_now", 0))

FrameShowRays ==
    /\ Update(Event("show_rays", 0))

\* The slider is there while show_rays.
FrameRayCount ==
    /\ ui_state.show_rays
    /\ \E v \in UiRayCounts : Update(Event("ray_count", v))

FrameAddLight ==
    /\ Len(scene.lights) < MaxLights
    /\ Update(Event("add_light", 0))

\* The sliders of the first light are there while there is a light.
FrameIntensity ==
    /\ Len(scene.lights) >= 1
    /\ \E v \in UiIntensities : Update(Event("intensity", <<1, v>>))

FrameRemoveLight ==
    /\ \E i \in 1..Len(scene.lights) : Update(Event("remove_light", i))

\* Frames on the raytracer settings and the lights.
NextSettings ==
    \/ FrameScale
    \/ FrameMode
    \/ FrameMaxBounces
    \/ FrameSamples
    \/ FrameAutoUpdate
    \/ FrameRenderNow
    \/ FrameShowRays
    \/ FrameAddLight
    \/ FrameIntensity
    \/ FrameRemoveLight

SpecSettings == InitApp /\ [][NextSettings]_vars

\* Frames on the camera and the visualization.
NextViews ==
    \/ FramePosition
    \/ FramePitch
    \/ FrameYaw
    \/ FrameResetView
    \/ FrameFov
    \/ FrameAutoUpdate
    \/ FrameRenderNow
    \/ FrameShowRays
    \/ FrameRayCount

SpecViews == InitApp /\ [][NextViews]_vars

\* ------------------------------------------------------------------------
\* Closest-hit queries: properties
\* ------------------------------------------------------------------------

Tagged(kind, prims) == [i \in 1..Len(prims) |-> [kind |-> kind, prim |-> prims[i]]]

\* The primitives of a scene in scan order.
ScanOrder(sc) ==
    Tagged("sphere", sc.spheres) \o Tagged("cube", sc.cubes)
        \o Tagged("plane", sc.planes)

\* What the k-th primitive in scan order reports on its own for the query.
Own(k) ==
    LET e == ScanOrder(qScene)[k]
    IN  Intersect(e.kind, e.prim, qRay, qWin[1], qWin[2])

\* The primitives that report a hit on their own, and those among them with
\* the smallest t.
OwnHits == {k \in 1..Len(ScanOrder(qScene)) : Own(k).hit}

Nearest == {k \in OwnHits : \A j \in OwnHits : Own(k).t <= Own(j).t}

\* C1: Scene.intersect returns none exactly when no primitive reports a hit
\* in the window on its own; otherwise its hit has the smallest t of all the
\* primitives' own hits and the material of a primitive attaining it.
C1_ClosestHit ==
    qOp = "scene" =>
        IF OwnHits = {} THEN ~qRes.hit
        ELSE /\ qRes.hit
             /\ \E k \in Nearest :
                  /\ qRes.t = Own(k).t
                  /\ qRes.material = ScanOrder(qScene)[k].prim.material

\* Two spheres are hit at different depths, the nearer one is scanned after
\* the farther one, and the query returned the nearer one's material.
C1_Witness ==
    /\ qOp = "scene"
    /\ qRay = Ray(<<F(500), 0, F(5000)>>, <<0, 0, -Scale>>)
    /\ qWin = <<Eps, FarT>>
    /\ Len(qScene.spheres) = 2
    /\ qScene.cubes = <<>> /\ qScene.planes = <<>>
    /\ OwnHits = {1, 2}
    /\ Own(2).t < Own(1).t
    /\ qRes.hit
    /\ qRes.material = qScene.spheres[2].material

SixAxes == {AxisVec(i, s) : i \in 1..3, s \in {-1, 1}}

UnitLength(n) == Abs(LengthSquared(n) - Scale) <= Scale \div 50

\* C3: every hit record carries a unit-length normal per the primitive's
\* convention: radial for a sphere, the given normal for a plane, one of the
\* six signed axis vectors for a cube, also for a ray that starts inside the
\* cube.
C3_UnitNormals ==
    (qOp # "none" /\ qRes.hit) =>
        /\ UnitLength(qRes.normal)
        /\ qOp = "sphere" =>
             qRes.normal = VDiv(VSub(qRes.point, qScene.spheres[qIdx].center),
                                qScene.spheres[qIdx].radius)
        /\ qOp = "plane" => qRes.normal = qScene.planes[qIdx].normal
        /\ qOp = "cube" => qRes.normal \in SixAxes

\* The last of the nearest primitives in scan order, and the first.
LastNearest == CHOOSE k \in Nearest : \A j \in Nearest : j <= k

FirstNearest == CHOOSE k \in Nearest : \A j \in Nearest : k <= j

\* C5 (as amended): when several primitives yield hits at exactly the same
\* smallest t, Scene.intersect returns the hit of the one scanned last: a
\* later-scanned primitive replaces an accepted hit when its hit is at least
\* as close.
C5_TieLastWins ==
    (qOp = "scene" /\ Cardinality(Nearest) >= 2) =>
        /\ qRes.hit
        /\ qRes.material = ScanOrder(qScene)[LastNearest].prim.material
        /\ qRes.normal = Own(LastNearest).normal

\* C5 (as claimed): on a tie the primitive scanned earlier is returned.
C5_TieFirstWins ==
    (qOp = "scene" /\ Cardinality(Nearest) >= 2) =>
        /\ qRes.hit
        /\ qRes.material = ScanOrder(qScene)[FirstNearest].prim.material

\* Two primitives of different materials tie at the smallest t and the scene
\* was queried.
C5_Witness ==
    /\ qOp = "scene"
    /\ Cardinality(Nearest) >= 2
    /\ ScanOrder(qScene)[FirstNearest].prim.material
         # ScanOrder(qScene)[LastNearest].prim.material
    /\ qRes.hit

\* ------------------------------------------------------------------------
\* The path recorder: properties
\* ------------------------------------------------------------------------

\* C4: every RayPath trace_paths has produced has at least 2 points, one
\* segment type fewer than points, and Primary as its first segment type,
\* in either mode, for every max_bounces and scene.
C4_PathShape ==
    \A k \in 1..Len(paths) :
        /\ Len(paths[k].points) >= 2
        /\ Len(paths[k].segment_types) = Len(paths[k].points) - 1
        /\ paths[k].segment_types[1] = "Primary"

\* trace_paths has returned two paths, one that bounced and one that ended
\* on its primary ray.
C4_Witness ==
    /\ pc = "returned"
    /\ Len(paths) = 2
    /\ Len(paths[1].points) >= 3
    /\ Len(paths[2].points) = 2

\* What the recorder of the mode does in the call it is about to make.
RecorderCall(draw) ==
    IF raytracer.mode = "Raytracing"
    THEN trace_path_recursive_raytracing(ray, scene, depth, path, is_primary, draw)
    ELSE trace_path_recursive_pathtracing(ray, scene, depth, path, is_primary, draw)

\* What the integrator of the mode does when called with the same ray and
\* depth, its first random draw being the same.
IntegratorCall(draw) ==
    IF raytracer.mode = "Raytracing"
    THEN trace_ray(ray, scene, depth, <<draw>>, 1)
    ELSE trace_pathtrace(ray, scene, depth, <<draw>>, 1)

\* The branch by which that integrator call goes on, or none where it stops.
IntegratorBranch(draw) ==
    LET hit == Scene_intersect(scene, ray, Eps, FarT)
    IN  IF depth = 0 \/ ~hit.hit THEN "none"
        ELSE IF raytracer.mode = "Raytracing"
        THEN Whitted_secondary(ray, hit, draw)
        ELSE IF Scatter(ray, hit, draw).absorbed THEN "none"
        ELSE Scatter(ray, hit, draw).branch

\* C6: in each mode, at every call of the recorder, the recorder goes on
\* with a secondary ray exactly when the integrator called with the same
\* ray, depth and random draw traces a secondary ray, by the same branch,
\* and it ends the path exactly where the integrator stops recursing.
C6_SameDecisions ==
    pc = "recording" =>
        \A draw \in Draws :
            /\ RecorderCall(draw).recurse <=> IntegratorCall(draw).calls > 1
            /\ RecorderCall(draw).branch = IntegratorBranch(draw)

\* C7: in every recorded path the first segment is tagged Primary, no later
\* segment is tagged Primary, and each later segment's tag is the branch
\* that created the ray travelling along it.
C7_TagsNameProducer ==
    \A k \in 1..Len(paths) :
        /\ paths[k].segment_types[1] = "Primary"
        /\ \A j \in 2..Len(paths[k].segment_types) :
             /\ paths[k].segment_types[j] # "Primary"
             /\ paths[k].segment_types[j] = made_paths[k][j]

\* ------------------------------------------------------------------------
\* The integrators and the pixel loop: properties
\* ------------------------------------------------------------------------

\* C9: an integrator called with depth 0 returns exactly (0,0,0) and makes
\* no scene query, whatever the ray and the scene.
C9_DepthZero ==
    (sOp \in {"trace_ray", "trace_pathtrace"} /\ sDepth = 0) =>
        (sRes.color = ZERO /\ sRes.queries = 0)

\* trace_pathtrace was called with depth 0 and a ray that the studio scene
\* would have stopped.
C9_Witness ==
    /\ sOp = "trace_pathtrace"
    /\ sDepth = 0
    /\ scene = StudioScene
    /\ Scene_intersect(scene, sRay, Eps, FarT).hit

\* n / extent as render computes a cell edge.
CellEdge(n, extent) == FDiv(n * Scale, extent * Scale)

RowMajor(e) == (e.y * raytracer.width + e.x) * 4

SamplesOf(px, py) == {k \in 1..Len(samples) : samples[k].x = px /\ samples[k].y = py}

\* C8: the buffer has width*height*4 bytes; the four bytes at
\* (y*width + x)*4 are pixel (x, y)'s R, G, B, each in 0..255, and 255;
\* every pixel is written exactly once; and row y = 0 is shaded from the
\* top band of v.
C8_BufferLayout ==
    /\ Len(buffer) = raytracer.width * raytracer.height * 4
    /\ \A k \in 1..Len(shaded) :
         LET e == shaded[k]
         IN  /\ e.x \in 0..(raytracer.width - 1)
             /\ e.y \in 0..(raytracer.height - 1)
             /\ e.index = RowMajor(e)
             /\ \A c \in 1..3 : /\ e.rgb[c] \in 0..255
                                /\ buffer[RowMajor(e) + c] = e.rgb[c]
             /\ buffer[RowMajor(e) + 4] = 255
             /\ \A j \in 1..Len(shaded) :
                  (shaded[j].x = e.x /\ shaded[j].y = e.y) => j = k
    /\ rpc = "returned" =>
         \A px \in 0..(raytracer.width - 1), py \in 0..(raytracer.height - 1) :
             \E k \in 1..Len(shaded) : shaded[k].x = px /\ shaded[k].y = py
    /\ \A k \in 1..Len(samples) :
         /\ samples[k].v >= Scale - CellEdge(samples[k].y + 1, raytracer.height)
         /\ samples[k].v <= Scale - CellEdge(samples[k].y, raytracer.height)

\* A 2 x 2 render of the studio scene has returned with pixels that differ.
C8_Witness ==
    /\ rpc = "returned"
    /\ raytracer.width = 2
    /\ raytracer.height = 2
    /\ scene = StudioScene
    /\ shaded[2].rgb # shaded[3].rgb
    /\ shaded[1].rgb # shaded[2].rgb

\* What C10 says of every sample but its cell, and of the counts.
SamplesRouted ==
    /\ \A k \in 1..Len(samples) :
         /\ samples[k].depth = raytracer.max_bounces
         /\ samples[k].integrator =
                IF raytracer.mode = "Raytracing" THEN "trace_ray"
                ELSE "trace_pathtrace"
    /\ \A k \in 1..Len(shaded) :
         Cardinality(SamplesOf(shaded[k].x, shaded[k].y)) = raytracer.samples_per_pixel
    /\ rpc = "sampling" => Cardinality(SamplesOf(x, y)) = sample
    /\ rpc = "returned" =>
         Len(samples) = raytracer.width * raytracer.height * raytracer.samples_per_pixel

\* C10 as stated: every pixel gets exactly samples_per_pixel samples, each
\* with u in [x/width, (x+1)/width) and v in (1 - (y+1)/height, 1 - y/height],
\* each routed with depth max_bounces to the integrator of the mode, and
\* width*height*samples_per_pixel primary rays are traced in all.
C10_SamplesInCell ==
    /\ SamplesRouted
    /\ \A k \in 1..Len(samples) :
         /\ samples[k].u >= CellEdge(samples[k].x, raytracer.width)
         /\ samples[k].u < CellEdge(samples[k].x + 1, raytracer.width)
         /\ samples[k].v > Scale - CellEdge(samples[k].y + 1, raytracer.height)
         /\ samples[k].v <= Scale - CellEdge(samples[k].y, raytracer.height)

\* C10 amended: the same with the cell closed at both ends, u in
\* [x/width, (x+1)/width] and v in [1 - (y+1)/height, 1 - y/height].
C10_SamplesInClosedCell ==
    /\ SamplesRouted
    /\ \A k \in 1..Len(samples) :
         /\ samples[k].u >= CellEdge(samples[k].x, raytracer.width)
         /\ samples[k].u <= CellEdge(samples[k].x + 1, raytracer.width)
         /\ samples[k].v >= Scale - CellEdge(samples[k].y + 1, raytracer.height)
         /\ samples[k].v <= Scale - CellEdge(samples[k].y, raytracer.height)

\* A 2 x 2 render with 2 samples per pixel has returned, one of its samples
\* on the far edge of its cell.
C10_Witness ==
    /\ rpc = "returned"
    /\ raytracer.width = 2
    /\ raytracer.height = 2
    /\ raytracer.samples_per_pixel = 2
    /\ \E k \in 1..Len(samples) :
         samples[k].u = CellEdge(samples[k].x + 1, raytracer.width)

\* ------------------------------------------------------------------------
\* Calls of render and trace_paths: properties
\* ------------------------------------------------------------------------

\* C11: no step of a render or a trace_paths call, nor the start of a further
\* call, changes the scene, the camera or the raytracer's configuration, and
\* the raytracer holds nothing but its five settings: no state is kept in it
\* between calls.
C11_ReadOnly ==
    [][/\ scene' = scene
       /\ camera' = camera
       /\ raytracer' = raytracer
       /\ DOMAIN raytracer' =
              {"width", "height", "max_bounces", "samples_per_pixel", "mode"}]_vars

\* A call has returned in the studio scene: trace_paths with a path that
\* hit, or render with every pixel written and random numbers drawn.
C11_Witness ==
    \/ /\ pc = "returned"
       /\ Len(paths) >= 1
       /\ paths[1].hit
       /\ scene = StudioScene
    \/ /\ rpc = "returned"
       /\ pos # 1
       /\ Len(shaded) = raytracer.width * raytracer.height
       /\ scene = StudioScene

\* The recorder the match on self.mode selects.
RecorderOf(mode) ==
    IF mode = "Raytracing"
    THEN "trace_path_recursive_raytracing"
    ELSE "trace_path_recursive_pathtracing"

\* C12: trace_paths returns exactly count paths (none for count = 0), every
\* recorder call it has made was a call of the recorder of the current mode,
\* and every path starts at the camera position.
C12_CountPaths ==
    /\ recorder \in {"none", RecorderOf(raytracer.mode)}
    /\ pc = "returned" =>
         /\ Len(paths) = count
         /\ count > 0 => recorder = RecorderOf(raytracer.mode)
         /\ \A k \in 1..Len(paths) :
              paths[k].points[1] = camera.transform.position

\* trace_paths has returned two paths in Raytracing mode, the first of which
\* ended at a surface that is neither reflective nor dielectric.
C12_Witness ==
    /\ pc = "returned"
    /\ count = 2
    /\ Len(paths) = 2
    /\ raytracer.mode = "Raytracing"
    /\ raytracer.max_bounces >= 1
    /\ paths[1].hit
    /\ Len(paths[1].points) = 2

\* ------------------------------------------------------------------------
\* The integrators: further properties
\* ------------------------------------------------------------------------

\* C13: two evaluations of trace_ray on the same scene, ray and depth return
\* the same radiance, whatever the random numbers drawn during each.
C13_Deterministic ==
    sOp = "trace_ray" =>
        \A other \in Tapes :
            trace_ray(sRay, scene, sDepth, other, 1).color = sRes.color

\* ------------------------------------------------------------------------
\* Cube::intersect and Sphere::intersect: further properties
\* ------------------------------------------------------------------------

\* The axes along which the queried ray does not move.
Still == {j \in 1..3 : qRay.direction[j] = 0}

\* The queried ray moves along axis i only, starts before the cube c on that
\* axis and within its extent on the other two.
Through(c, i) ==
    /\ Still = (1..3) \ {i}
    /\ \A j \in Still : c.min[j] <= qRay.origin[j] /\ qRay.origin[j] <= c.max[j]
    /\ IF qRay.direction[i] > 0
       THEN qRay.origin[i] < c.min[i]
       ELSE qRay.origin[i] > c.max[i]

\* The coordinate on axis i of the face of c such a ray crosses first, and
\* the sign of that face's outward normal.
FirstFace(c, i) == IF qRay.direction[i] > 0 THEN c.min[i] ELSE c.max[i]

Outward(i) == IF qRay.direction[i] > 0 THEN -1 ELSE 1

\* The ray parameter at which such a ray reaches that face.
Entry(c, i) == FDiv(FirstFace(c, i) - qRay.origin[i], qRay.direction[i])

\* C14: a ray that starts outside an axis-aligned box and runs along one
\* axis through it, queried over a window that holds the parameter of its
\* entry, is reported to hit at that parameter, on the first face crossed
\* (at the distance of that face when the direction has length 1), with the
\* face's outward unit axis as normal; a ray parallel to an axis and outside
\* that axis's slab is reported to miss.
C14_AxisRay ==
    qOp = "cube" =>
        /\ \A i \in 1..3 :
             (/\ Through(qScene.cubes[qIdx], i)
              /\ qWin[1] <= Entry(qScene.cubes[qIdx], i)
              /\ Entry(qScene.cubes[qIdx], i) <= qWin[2]) =>
                 /\ qRes.hit
                 /\ qRes.t = Entry(qScene.cubes[qIdx], i)
                 /\ qRes.point[i] = FirstFace(qScene.cubes[qIdx], i)
                 /\ Abs(qRay.direction[i]) = Scale =>
                      qRes.t = Abs(FirstFace(qScene.cubes[qIdx], i) - qRay.origin[i])
                 /\ qRes.normal =
                      [k \in 1..3 |-> IF k = i THEN Outward(i) * Scale ELSE 0]
        /\ (\E j \in Still : \/ qRay.origin[j] < qScene.cubes[qIdx].min[j]
                             \/ qRay.origin[j] > qScene.cubes[qIdx].max[j]) =>
                 ~qRes.hit

\* The ray from (0,0,5) along (0,0,-1) was reported to hit the box
\* [-1,-1,-1]..[1,1,1] at t = 4 with normal (0,0,1).
C14_Witness ==
    /\ qOp = "cube"
    /\ qScene.cubes[qIdx].min = <<-Scale, -Scale, -Scale>>
    /\ qScene.cubes[qIdx].max = <<Scale, Scale, Scale>>
    /\ qRay = Ray(<<0, 0, F(5000)>>, <<0, 0, -Scale>>)
    /\ qRes.hit
    /\ qRes.t = 4 * Scale
    /\ qRes.normal = <<0, 0, Scale>>

\* The quadratic of the queried ray and the sphere s: a, half_b, c, the
\* discriminant and, where it is not negative, the two roots.
QuadA == LengthSquared(qRay.direction)

QuadHalfB(s) == Dot(VSub(qRay.origin, s.center), qRay.direction)

QuadC(s) == LengthSquared(VSub(qRay.origin, s.center)) - FMul(s.radius, s.radius)

Discriminant(s) == FMul(QuadHalfB(s), QuadHalfB(s)) - FMul(QuadA, QuadC(s))

SmallerRoot(s) == FDiv(-QuadHalfB(s) - FSqrt(Discriminant(s)), QuadA)

LargerRoot(s) == FDiv(-QuadHalfB(s) + FSqrt(Discriminant(s)), QuadA)

InWindow(t) == qWin[1] <= t /\ t <= qWin[2]

\* p lies on the surface of s, to one part in ten thousand of a unit.
OnSurface(s, p) ==
    Abs(Length(VSub(p, s.center)) - s.radius) <= Scale \div 10000

\* C15: for a ray that starts outside a sphere of radius r > 0, a negative
\* discriminant yields no hit, and a hit is at the smaller root when that
\* root is in the window and at the larger root otherwise, at a point on the
\* sphere's surface, with normal (p - c) / r.
C15_SphereHit ==
    (/\ qOp = "sphere"
     /\ qScene.spheres[qIdx].radius > 0
     /\ QuadC(qScene.spheres[qIdx]) > 0) =>
        /\ Discriminant(qScene.spheres[qIdx]) < 0 => ~qRes.hit
        /\ qRes.hit =>
             /\ qRes.t = IF InWindow(SmallerRoot(qScene.spheres[qIdx]))
                         THEN SmallerRoot(qScene.spheres[qIdx])
                         ELSE LargerRoot(qScene.spheres[qIdx])
             /\ OnSurface(qScene.spheres[qIdx], qRes.point)
             /\ qRes.normal = VDiv(VSub(qRes.point, qScene.spheres[qIdx].center),
                                   qScene.spheres[qIdx].radius)

\* A ray from outside the sphere of radius 2 was reported to hit it at the
\* larger root, the smaller one lying before the window.
C15_Witness ==
    /\ qOp = "sphere"
    /\ qScene.spheres[qIdx].radius = 2 * Scale
    /\ QuadC(qScene.spheres[qIdx]) > 0
    /\ qRes.hit
    /\ ~InWindow(SmallerRoot(qScene.spheres[qIdx]))
    /\ qRes.t = LargerRoot(qScene.spheres[qIdx])
    /\ qRes.t > SmallerRoot(qScene.spheres[qIdx])

\* What the ray of the integrator call hits first.
FirstHit == Scene_intersect(scene, sRay, Eps, FarT)

\* C16: trace_ray at depth >= 1, in a scene with no lights, on a ray whose
\* first hit has a material that is not Dielectric and has reflectivity 0,
\* returns exactly material.color * 0.1, whatever the material's specular,
\* shininess, roughness and ior.
C16_AmbientOnly ==
    (/\ sOp = "trace_ray"
     /\ sDepth >= 1
     /\ scene.lights = <<>>
     /\ FirstHit.hit
     /\ FirstHit.material.mat_type # "Dielectric"
     /\ FirstHit.material.reflectivity = 0) =>
        sRes.color = <<FirstHit.material.color[1] \div 10,
                       FirstHit.material.color[2] \div 10,
                       FirstHit.material.color[3] \div 10>>

\* trace_ray has returned a tenth of the colour of a dull metal, whose
\* specular, shininess, roughness and ior differ from the default.
C16_Witness ==
    /\ sOp = "trace_ray"
    /\ sDepth >= 1
    /\ scene.lights = <<>>
    /\ FirstHit.hit
    /\ FirstHit.material = DullMetal
    /\ sRes.color = <<F(30), F(60), F(90)>>

\* t = 0.5 * (normalised direction.y + 1) of the ray of the integrator call.
SkyT == (Normalize(sRay.direction)[2] + Scale) \div 2

\* C17: at depth >= 1 a ray that hits nothing gets, from either integrator,
\* the colour (1 - t) * (1,1,1) + t * (0.5,0.7,1.0): (0.5,0.7,1.0) for the
\* direction (0,1,0) and (1,1,1) for (0,-1,0), whatever the lights of the
\* scene and the origin of the ray.
C17_SkyColour ==
    (sOp \in {"trace_ray", "trace_pathtrace"} /\ sDepth >= 1 /\ ~FirstHit.hit) =>
        /\ sRes.color = <<Scale - SkyT + FMul(F(500), SkyT),
                          Scale - SkyT + FMul(F(700), SkyT),
                          Scale - SkyT + FMul(Scale, SkyT)>>
        /\ sRay.direction = <<0, Scale, 0>> => sRes.color = <<F(500), F(700), Scale>>
        /\ sRay.direction = <<0, -Scale, 0>> => sRes.color = ONE

\* trace_pathtrace has returned (0.5,0.7,1.0) for a ray straight up, from an
\* origin off the axis, in a scene that has a light.
C17_Witness ==
    /\ sOp = "trace_pathtrace"
    /\ sDepth >= 1
    /\ sRay = Ray(<<3 * Scale, 2 * Scale, Scale>>, <<0, Scale, 0>>)
    /\ scene.lights # <<>>
    /\ ~FirstHit.hit
    /\ sRes.color = <<F(500), F(700), Scale>>

\* The intersection the recorder about to be called looks for: none at
\* depth 0, where the scene is not queried.
FoundNow == depth >= 1 /\ Scene_intersect(scene, ray, Eps, FarT).hit

\* C18: a path starts with hit = false, and each recorder call leaves hit
\* true exactly when it was true before or the call found an intersection;
\* a path whose primary ray misses, or that is recorded with max_bounces = 0,
\* is pushed with hit = false and exactly two points.
C18_HitFlag ==
    [][/\ (pc = "loop" /\ pc' = "recording") => ~path'.hit
       /\ pc = "recording" =>
            /\ path'.hit <=> (path.hit \/ FoundNow)
            /\ (is_primary /\ ~FoundNow) =>
                 /\ pc' = "loop"
                 /\ paths' = Append(paths, path')
                 /\ ~path'.hit
                 /\ Len(path'.points) = 2
            /\ raytracer.max_bounces = 0 => (is_primary /\ ~FoundNow)]_vars

\* trace_paths has returned a path that found an intersection and a path
\* whose primary ray missed, with max_bounces >= 1.
C18_Witness ==
    /\ pc = "returned"
    /\ raytracer.max_bounces >= 1
    /\ Len(paths) = 2
    /\ paths[1].hit
    /\ ~paths[2].hit
    /\ Len(paths[2].points) = 2

\* The one secondary ray of a Dielectric first hit, the draw being the
\* tape's entry p: reflected when refraction is impossible or the Schlick
\* reflectance exceeds the draw, refracted otherwise.
SecondaryRay(p) ==
    Ray(FirstHit.point, Dielectric(sRay, FirstHit, Draw(tape, p).f).direction)

\* C19: trace_ray at depth >= 1 whose ray first hits a Dielectric returns
\* exactly what trace_ray returns for that one secondary ray at depth - 1,
\* the random numbers following the draw that chose it: nothing of the
\* ambient term, the lights' terms or the mirror term is in the result.
C19_DielectricReplaces ==
    (/\ sOp = "trace_ray"
     /\ sDepth >= 1
     /\ FirstHit.hit
     /\ FirstHit.material.mat_type = "Dielectric") =>
        \E p \in 1..TapeLen :
            sRes.color = trace_ray(SecondaryRay(p), scene, sDepth - 1, tape,
                                   p + 1).color

\* trace_ray at depth 1 has returned black for a hit on the lit, coloured,
\* reflective glass sphere: its secondary ray was cut off at depth 0.
C19_Witness ==
    /\ sOp = "trace_ray"
    /\ sDepth = 1
    /\ FirstHit.hit
    /\ FirstHit.material.mat_type = "Dielectric"
    /\ FirstHit.material.reflectivity > 0
    /\ FirstHit.material.color # ZERO
    /\ scene.lights # <<>>
    /\ sRes.color = ZERO

\* The shadow ray of light i at the first hit and the far end of its window.
ShadowRay(i) ==
    Ray(FirstHit.point,
        IF scene.lights[i].light_type = "Point"
        THEN Normalize(VSub(scene.lights[i].position, FirstHit.point))
        ELSE VNeg(Normalize(scene.lights[i].direction)))

ShadowEnd(i) ==
    IF scene.lights[i].light_type = "Point"
    THEN Length(VSub(scene.lights[i].position, FirstHit.point))
    ELSE FarT

\* Scene.intersect on the shadow ray over [0.001, distance] returns a hit.
Shadowed(i) == Scene_intersect(scene, ShadowRay(i), Eps, ShadowEnd(i)).hit

\* What light i adds to the called integrator's direct lighting when it is
\* let through.
TermOf(i) ==
    IF sOp = "trace_ray"
    THEN Whitted_terms(sRay, FirstHit, scene.lights[i], ShadowRay(i).direction)
    ELSE Pathtrace_terms(sRay, FirstHit, scene.lights[i], ShadowRay(i).direction)

\* The terms of the lights i.. whose shadow query returned none.
RECURSIVE DirectFrom(_)
DirectFrom(i) ==
    IF i > Len(scene.lights) THEN ZERO
    ELSE VAdd(IF Shadowed(i) THEN ZERO ELSE TermOf(i), DirectFrom(i + 1))

\* The first hit is one whose direct lighting the called integrator returns:
\* not a Dielectric in trace_ray, not a specular material in trace_pathtrace.
DirectlyLit ==
    /\ sOp \in {"trace_ray", "trace_pathtrace"}
    /\ sDepth >= 1
    /\ FirstHit.hit
    /\ FirstHit.material.mat_type # "Dielectric"
    /\ sOp = "trace_pathtrace" =>
         (FirstHit.material.mat_type = "Metal" => FirstHit.material.roughness >= F(50))

\* What the called integrator's result holds besides the lights' terms: the
\* ambient term and the mirror term of trace_ray, the indirect term of
\* trace_pathtrace.
NotDirect ==
    IF sOp = "trace_ray"
    THEN VAdd(VScale(FirstHit.material.color, F(100)),
              IF FirstHit.material.reflectivity > 0
              THEN VScale(trace_ray(Ray(FirstHit.point,
                                        Reflect(sRay.direction, FirstHit.normal)),
                                    scene, sDepth - 1, tape, 1).color,
                          FirstHit.material.reflectivity)
              ELSE ZERO)
    ELSE IF Scatter(sRay, FirstHit, Draw(tape, 1)).absorbed THEN ZERO
    ELSE VMul(Scatter(sRay, FirstHit, Draw(tape, 1)).attenuation,
              trace_pathtrace(Ray(FirstHit.point,
                                  Scatter(sRay, FirstHit, Draw(tape, 1)).direction),
                              scene, sDepth - 1, tape, 2).color)

\* C20: in both integrators the direct lighting of a hit is the sum of the
\* terms of exactly those lights whose shadow query, Scene.intersect on the
\* ray from the hit point toward the light over [0.001, distance], returns
\* none; distance is the distance to a point light and unbounded for a
\* directional light, so an occluder beyond a point light and the surface at
\* the hit point itself do not shadow it.
C20_ShadowWindow ==
    DirectlyLit => sRes.color = VAdd(NotDirect, DirectFrom(1))

\* trace_pathtrace has shaded the floor under the lamp: the ball beyond the
\* lamp does not shadow the lamp and does shadow the sun, the floor itself
\* lies on the lamp's shadow ray before 0.001, and both lights would add
\* light there.
C20_Witness ==
    /\ sOp = "trace_pathtrace"
    /\ scene = LampScene
    /\ sRay = Ray(<<0, Scale, 0>>, <<0, -Scale, 0>>)
    /\ DirectlyLit
    /\ ~Shadowed(1)
    /\ Scene_intersect(scene, ShadowRay(1), Eps, FarT).hit
    /\ Scene_intersect(scene, ShadowRay(1), 0, FarT).t < Eps
    /\ Shadowed(2)
    /\ TermOf(1) # ZERO
    /\ TermOf(2) # ZERO
    /\ sRes.color = VAdd(NotDirect, TermOf(1))

\* The first hit is on a Dielectric or on a Metal with roughness < 0.05.
SpecularHit ==
    \/ FirstHit.material.mat_type = "Dielectric"
    \/ /\ FirstHit.material.mat_type = "Metal"
       /\ FirstHit.material.roughness < F(50)

\* The closest-hit and shadow queries of the one recursive call of
\* trace_pathtrace at the first hit; none when the hit absorbs the ray.
IndirectQueries ==
    IF Scatter(sRay, FirstHit, Draw(tape, 1)).absorbed THEN 0
    ELSE trace_pathtrace(Ray(FirstHit.point,
                             Scatter(sRay, FirstHit, Draw(tape, 1)).direction),
                         scene, sDepth - 1, tape, 2).queries

\* C21: trace_pathtrace at a hit on a Dielectric or on a Metal with
\* roughness < 0.05 queries the scene for no shadow ray and returns
\* attenuation times the recursive result, with no term of the scene's
\* lights; at a Lambertian hit or a Metal hit with roughness >= 0.05 it
\* queries the scene once for every light.
C21_SpecularSkipsLights ==
    (sOp = "trace_pathtrace" /\ sDepth >= 1 /\ FirstHit.hit) =>
        IF SpecularHit
        THEN /\ sRes.color = NotDirect
             /\ sRes.queries = 1 + IndirectQueries
        ELSE sRes.queries = 1 + Len(scene.lights) + IndirectQueries

\* trace_pathtrace has shaded the polished ball above the lamp, which the
\* lamp reaches unshadowed and would light, and returned only the indirect
\* term.
C21_Witness ==
    /\ sOp = "trace_pathtrace"
    /\ sDepth = 2
    /\ FirstHit.hit
    /\ FirstHit.material = PolishedMetal
    /\ ~Shadowed(1)
    /\ TermOf(1) # ZERO
    /\ sRes.color = NotDirect
    /\ sRes.color # ZERO
    /\ sRes.queries = 1 + IndirectQueries

\* The direction trace_pathtrace scatters the ray into at the first hit, the
\* draw being the tape's first entry.
ScatterDirection ==
    IF FirstHit.material.mat_type = "Lambertian"
    THEN Normalize(VAdd(FirstHit.normal, Draw(tape, 1).v))
    ELSE IF FirstHit.material.mat_type = "Metal"
    THEN VAdd(Reflect(Normalize(sRay.direction), FirstHit.normal),
              VScale(Draw(tape, 1).v, FirstHit.material.roughness))
    ELSE Dielectric(sRay, FirstHit, Draw(tape, 1).f).direction

\* The Metal hit whose perturbed direction points into the surface.
Absorbed ==
    /\ FirstHit.material.mat_type = "Metal"
    /\ Dot(ScatterDirection, FirstHit.normal) <= 0

\* The direct-light term of trace_pathtrace at the first hit.
DirectLight == IF SpecularHit THEN ZERO ELSE DirectFrom(1)

\* The one recursive call of trace_pathtrace at the first hit.
Recursive ==
    trace_pathtrace(Ray(FirstHit.point, ScatterDirection), scene, sDepth - 1,
                    tape, 2)

\* C22: trace_pathtrace at a Metal hit whose perturbed scatter direction
\* has a dot product <= 0 with the normal returns the direct-light term
\* alone and calls itself no more; at every other hit it calls itself
\* exactly once, at depth - 1, and returns direct + attenuation * that
\* result, attenuation being (1,1,1) for a Dielectric and material.color
\* otherwise.
C22_AbsorbOrRecurse ==
    (sOp = "trace_pathtrace" /\ sDepth >= 1 /\ FirstHit.hit) =>
        IF Absorbed
        THEN /\ sRes.color = DirectLight
             /\ sRes.calls = 1
        ELSE /\ sRes.color =
                  VAdd(DirectLight,
                       VMul(IF FirstHit.material.mat_type = "Dielectric"
                            THEN ONE ELSE FirstHit.material.color,
                            Recursive.color))
             /\ sRes.calls = 1 + Recursive.calls

\* trace_pathtrace at depth 2 has returned the direct light of a lit rough
\* metal hit that absorbed the ray, after one call.
C22_Witness ==
    /\ sOp = "trace_pathtrace"
    /\ sDepth = 2
    /\ FirstHit.hit
    /\ Absorbed
    /\ DirectLight # ZERO
    /\ sRes.color = DirectLight
    /\ sRes.calls = 1

\* C23: the recursion of trace_ray, of trace_pathtrace and of the two
\* recorders is bounded by the depth: a recorder is first called with
\* max_bounces, calls itself only at depth >= 1 and with depth - 1, so that
\* its depth stays in 0..max_bounces and its calls nest at most
\* max_bounces + 1 deep; the calls of an integrator called with a depth nest
\* at most depth + 1 deep.
C23_DepthBounded ==
    [][/\ (pc = "loop" /\ pc' = "recording") => depth' = raytracer.max_bounces
       /\ (pc = "recording" /\ pc' = "recording") =>
            /\ depth >= 1
            /\ depth' = depth - 1
       /\ pc' = "recording" =>
            /\ depth' \in 0..raytracer.max_bounces
            /\ Len(made') = raytracer.max_bounces - depth' + 1
       /\ sOp' \in {"trace_ray", "trace_pathtrace"} =>
            sRes'.nesting \in 1..(sDepth' + 1)]_vars

\* A recorder has been called at depth 0 as the third call of its path, or
\* trace_ray called with the largest depth has nested its calls depth + 1
\* deep while making more calls than that.
C23_Witness ==
    \/ /\ pc = "recording"
       /\ raytracer.max_bounces = MaxBounces
       /\ depth = 0
       /\ Len(made) = MaxBounces + 1
    \/ /\ sOp = "trace_ray"
       /\ sDepth = MaxBounces
       /\ sRes.nesting = sDepth + 1
       /\ sRes.calls > sRes.nesting

\* What trace_ray returns for the ray of the call with its direction halved,
\* the random draws being the same.
HalvedRay == Ray(sRay.origin, VScale(sRay.direction, F(500)))

\* C24: trace_ray returns the same radiance, to within 0.001 a channel, for
\* a ray and for the ray of the same origin whose direction is k times as
\* long (here k = 0.5), in every scene and at every depth.
C24_ScaleInvariant ==
    sOp = "trace_ray" =>
        \A i \in 1..3 :
            Abs(trace_ray(HalvedRay, scene, sDepth, tape, 1).color[i]
                - sRes.color[i]) <= F(1)

\* ------------------------------------------------------------------------
\* The application: properties
\* ------------------------------------------------------------------------

\* What render asks of the settings it is called on; width * height * 4 is
\* below 2^32 when width * height is below 2^30.
RenderPreconditions(rt) ==
    /\ rt.width >= 1
    /\ rt.height >= 1
    /\ rt.samples_per_pixel >= 1
    /\ rt.max_bounces \in 0..10
    /\ rt.width * rt.height <= 1073741823

\* C25: after any sequence of frames from the default configuration, the
\* raytracer settings have width >= 1, height >= 1, samples_per_pixel >= 1
\* and max_bounces in 0..10, and width * height * 4 fits 32 bits; so did the
\* settings of every render made, the one behind the texture shown.
C25_RenderPreconditions ==
    /\ RenderPreconditions(raytracer)
    /\ \A k \in 1..Len(raytraced_texture) :
          RenderPreconditions(raytraced_texture[k].raytracer)

\* The smallest resolution, the most samples and no bounce, rendered.
C25_Witness ==
    /\ raytracer.width = 50
    /\ raytracer.height = 37
    /\ raytracer.samples_per_pixel = 16
    /\ raytracer.max_bounces = 0
    /\ raytraced_texture = <<Texture(raytracer, scene, camera)>>
    /\ raytracer # DefaultRaytracer

\* C26: after any sequence of frames, whenever "Show Ray Paths" is off at
\* the end of a frame, the stored ray_paths the 3D view draws is empty.
C26_HiddenPathsEmpty == ~ui_state.show_rays => ray_paths = <<>>

\* The image shown was rendered from the camera, the lights and the settings
\* as they are now.
ImageCurrent ==
    raytraced_texture = <<Texture(raytracer, scene, camera)>>

\* The image shown differs from one rendered now in the camera at most.
CameraStaleOnly ==
    /\ Len(raytraced_texture) = 1
    /\ raytraced_texture[1].raytracer = raytracer
    /\ raytraced_texture[1].lights = scene.lights

\* With "Auto Update" on, no edit is left un-rendered.
AutoOnCurrent == ui_state.auto_update => ImageCurrent

\* With "Auto Update" off, edits of the camera only are left un-rendered.
AutoOffCameraOnly == ~ui_state.auto_update => CameraStaleOnly

\* C27: after any sequence of frames, with "Auto Update" on at the end of a
\* frame the image shown was rendered from the current camera, lights and
\* settings; with it off, only edits of the camera's position, rotation and
\* field of view may be left un-rendered.
C27_AutoUpdateCurrent == AutoOnCurrent /\ AutoOffCameraOnly

\* C28: every path trace_paths records has at most max_bounces + 2 points,
\* the camera origin and one point for each depth from max_bounces down to 0,
\* in both render modes; the path being recorded has the origin and one point
\* for each recorder call made so far.
C28_PathLength ==
    /\ \A k \in 1..Len(paths) :
          /\ Len(paths[k].points) >= 2
          /\ Len(paths[k].points) <= raytracer.max_bounces + 2
    /\ pc = "recording" =>
          Len(path.points) = 1 + (raytracer.max_bounces - depth)

\* A path of max_bounces + 2 points with max_bounces at its bound, in each
\* mode's run.
C28_Witness ==
    /\ pc = "returned"
    /\ raytracer.max_bounces = MaxBounces
    /\ \E k \in 1..Len(paths) : Len(paths[k].points) = MaxBounces + 2
    /\ \E k \in 1..Len(paths) : Len(paths[k].points) < MaxBounces + 2

\* The segment a recorder call has just closed: its tag and its far end.
ClosedTag == path'.segment_types[Len(path'.segment_types)]

ClosedEnd == path'.points[Len(path'.points)]

\* What the ray of the call meets.
Met == Scene_intersect(scene, ray, Eps, FarT)

\* The segment just closed against what the ray of the call met.
ClosedAgainst(met) ==
    /\ Len(path'.points) = Len(path.points) + 1
    /\ Len(path'.segment_types) = Len(path.segment_types) + 1
    /\ ClosedTag = "Refraction" =>
          /\ depth >= 1
          /\ met.hit
          /\ met.material.mat_type = "Dielectric"
          /\ ClosedEnd = met.point
    /\ ClosedTag = "Reflection" =>
          /\ depth >= 1
          /\ met.hit
          /\ ClosedEnd = met.point
    /\ (depth = 0 \/ ~met.hit) =>
          /\ ClosedEnd = RayAt(ray, IF depth = 0 THEN 2 * Scale ELSE 5 * Scale)
          /\ ClosedTag = IF Len(path'.segment_types) = 1
                         THEN "Primary" ELSE "Diffuse"
          /\ pc' = "loop"
          /\ paths' = Append(paths, path')

\* C29: in every recorded path, a segment tagged Refraction ends at an
\* intersection of its ray with a Dielectric surface and a segment tagged
\* Reflection ends at an intersection of its ray; a segment that ends at an
\* extension point, ray.at(2) on depth exhaustion or ray.at(5) on a miss, is
\* the last of its path and is tagged Primary when it is the only segment
\* and Diffuse otherwise.
C29_TagsAndEnds ==
    [][(pc = "recording" /\ path' # path) => ClosedAgainst(Met)]_vars

\* Two paths returned: one of segments Primary, Refraction, Diffuse, whose
\* last segment is an extension at depth 0, and one whose only segment is the
\* extension of a primary ray that met nothing.
C29_Witness ==
    /\ pc = "returned"
    /\ raytracer.max_bounces = MaxBounces
    /\ \E k \in 1..Len(paths) :
          paths[k].segment_types = <<"Primary", "Refraction", "Diffuse">>
    /\ \E k \in 1..Len(paths) :
          /\ ~paths[k].hit
          /\ paths[k].segment_types = <<"Primary">>

\* A path returned with a Reflection segment.
ReflectionRecorded ==
    \E k \in 1..Len(paths) :
        \E j \in 2..Len(paths[k].segment_types) :
            paths[k].segment_types[j] = "Reflection"

\* C30: for a ray traced by trace_ray with depth d, each hit spawns at most
\* one recursive trace, so trace_ray is invoked at most d + 1 times in all
\* and makes at most d closest-hit queries that are not shadow queries (in a
\* scene without lights, every query counted is one of those), whatever the
\* scene.
C30_LinearCalls ==
    sOp = "trace_ray" =>
        /\ sRes.calls <= sDepth + 1
        /\ Len(scene.lights) = 0 => sRes.queries <= sDepth

====
